----------------------------- MODULE LCRQProofs -----------------------------
(***************************************************************************)
(* Proofs about LCRQ for any number of threads and any sizes.  Everything  *)
(* a thread has read only grows: the indices of a ring, the index of a     *)
(* cell, the list of rings.  So what it knows stays true while the others  *)
(* run, and a compare-and-swap that succeeds finds the cell as it was.     *)
(***************************************************************************)
EXTENDS LCRQ, TLAPS

RingType == [head : Nat, tail : Nat, closed : BOOLEAN, cell : [Slot -> CellType]]
LocalType == [rq : Nat, index : Nat, seen : CellType, tt : [index : Nat, closed : BOOLEAN],
              h : Nat, r : 0..Patience + 1, tries : 0..CloseTries]

AllTypes ==
  /\ rings \in Seq(RingType)
  /\ \A r \in 1..Len(rings), c \in Slot : rings[r].cell[c].idx % RingSize = c
  /\ head \in 1..Len(rings) /\ tail \in 1..Len(rings)
  /\ pc \in [Thread -> EnqueueLabel \cup DequeueLabel \cup {"idle", "got"}]
  /\ \A t \in Enqueuer : pc[t] \in EnqueueLabel \cup {"idle"}
  /\ \A t \in Dequeuer : pc[t] \in DequeueLabel \cup {"idle", "got"}
  /\ arg \in [Enqueuer -> Value \cup {EMPTY}]
  /\ my \in [Thread -> LocalType]
  /\ \A t \in Thread : my[t].rq \in 1..Len(rings)
  /\ put \subseteq Value /\ before \subseteq Value \X Value
  /\ wasEmpty \in [Dequeuer -> BOOLEAN]

(* Only the last ring is open, and what is in a cell was put there by an
   enqueue that drew its index. *)
RingsOK ==
  /\ \A r \in 1..Len(rings) - 1 : rings[r].closed
  /\ \A r \in 1..Len(rings), c \in Slot :
       rings[r].cell[c].val # EMPTY => rings[r].cell[c].idx < rings[r].tail

(* Enqueue holds an index and has not filled the cell of it. *)
Drawn(t) == pc[t] \in {"enq_idx", "enq_val", "enq_head", "enq_cas"}

(* What an enqueuer knows. *)
EnqueuerOK(t) ==
  /\ pc[t] = "idle" <=> arg[t] = EMPTY
  /\ Drawn(t) => /\ my[t].index < Ring(t).tail
                 /\ Cell(t).idx = my[t].index => Cell(t).val = EMPTY
  /\ pc[t] \in {"enq_val", "enq_head", "enq_cas"} => my[t].seen.idx <= Cell(t).idx
  /\ pc[t] \in {"enq_head", "enq_cas"} => my[t].seen.idx <= my[t].index /\ my[t].seen.val = EMPTY
  /\ pc[t] = "enq_link" => Ring(t).closed
  /\ pc[t] \in {"enq_help", "enq_swing"} => my[t].rq < Len(rings)

(* What a dequeuer knows. *)
Fixing == {"fix_tail", "fix_head", "fix_cas", "deq_next"}
DequeuerOK(t) ==
  /\ my[t].rq <= head
  /\ pc[t] \in Waiting \cup Fixing \cup {"deq_close", "deq_test", "deq_again"} => my[t].index < Ring(t).head
  /\ pc[t] \in Waiting \ {"deq_idx"} => my[t].seen.idx <= Cell(t).idx
  /\ pc[t] = "deq_take" => my[t].seen.idx = my[t].index /\ my[t].seen.val # EMPTY
  /\ pc[t] = "deq_mark" => my[t].seen.idx < my[t].index /\ my[t].seen.val # EMPTY
  /\ pc[t] = "deq_look" => my[t].seen.idx <= my[t].index
  /\ pc[t] = "deq_skip" => my[t].seen.idx <= my[t].index /\ my[t].seen.val = EMPTY
  /\ pc[t] \in {"deq_again", "deq_swing"} => my[t].rq < Len(rings)
  /\ pc[t] \in Fixing /\ IsLast(my[t].rq) => wasEmpty[t]
  /\ pc[t] = "empty" => wasEmpty[t]
  /\ pc[t] = "got" => my[t].seen.val # EMPTY

(* No index is drawn twice from one end of a ring. *)
DistinctOK ==
  /\ \A t, u \in Enqueuer :
       t # u /\ Drawn(t) /\ Drawn(u) /\ my[t].rq = my[u].rq => my[t].index # my[u].index
  /\ \A t, u \in Dequeuer :
       t # u /\ pc[t] \in Waiting /\ pc[u] \in Waiting /\ my[t].rq = my[u].rq => my[t].index # my[u].index

(* Nothing is left in ring r, and nothing can come. *)
Finished(r) ==
  /\ rings[r].closed
  /\ \A c \in Slot : rings[r].cell[c].val # EMPTY => rings[r].cell[c].idx < rings[r].head
  /\ \A t \in Enqueuer : Drawn(t) /\ my[t].rq = r => my[t].index < rings[r].head
FinishedOK ==
  /\ \A r \in 1..head - 1 : Finished(r)
  /\ \A t \in Dequeuer : pc[t] = "deq_swing" => Finished(my[t].rq)

(* A value is with one enqueuer or in one cell; only the value that is linked
   with a new ring is with both. *)
PlacesOK ==
  /\ \A t \in Enqueuer : arg[t] \in put \cup {EMPTY}
  /\ \A t, u \in Enqueuer : arg[t] = arg[u] /\ arg[t] # EMPTY => t = u
  /\ \A r \in 1..Len(rings), c \in Slot :
       LET v == rings[r].cell[c].val
       IN  v # EMPTY => /\ v \in put
                        /\ \A t \in Enqueuer : arg[t] = v => pc[t] = "enq_swing"
                        /\ \A q \in 1..Len(rings), d \in Slot : rings[q].cell[d].val = v => q = r /\ d = c

(* An index whose dequeuer has left the cell: no enqueue will fill the cell
   for it, since the cell is of a later round, or unsafe; an enqueuer that
   saw it unsafe and found that its own index is still to come has a later
   index, or will find the cell changed. *)
Abandoned(r, i) ==
  /\ i < rings[r].head
  /\ \A d \in Dequeuer : pc[d] \in Waiting /\ my[d].rq = r => my[d].index # i
Misses(t, r, i, c) ==
  pc[t] = "enq_cas" /\ my[t].seen.unsafe /\ my[t].rq = r /\ my[t].index % RingSize = c =>
    \/ my[t].index > i
    \/ rings[r].cell[c].idx > my[t].seen.idx
    \/ rings[r].cell[c].val # EMPTY
Unfillable(r, i, c) ==
  \/ rings[r].cell[c].idx > i
  \/ rings[r].cell[c].unsafe /\ \A t \in Enqueuer : Misses(t, r, i, c)
AbandonedOK ==
  \A r \in 1..Len(rings), i \in Nat : Abandoned(r, i) => Unfillable(r, i, i % RingSize)

(* Places in the list of rings. *)
Less(r, i, q, j) == r < q \/ (r = q /\ i < j)

(* A value whose put returned before that of another one began is before it in
   the list, wherever that one is or will be. *)
OrderOK ==
  \A u, v \in Value : <<u, v>> \in before =>
    /\ u \in put /\ v \in put
    /\ \A t \in Enqueuer : arg[t] # u
    /\ \A r \in 1..Len(rings), c \in Slot : rings[r].cell[c].val = u =>
         /\ \A t \in Enqueuer : arg[t] = v /\ Drawn(t) =>
              Less(r, rings[r].cell[c].idx, my[t].rq, my[t].index)
         /\ \A q \in 1..Len(rings), d \in Slot : rings[q].cell[d].val = v =>
              Less(r, rings[r].cell[c].idx, q, rings[q].cell[d].idx)

LCRQInv ==
  /\ AllTypes /\ RingsOK /\ DistinctOK /\ FinishedOK /\ PlacesOK /\ AbandonedOK /\ OrderOK
  /\ \A t \in Enqueuer : EnqueuerOK(t)
  /\ \A t \in Dequeuer : DequeuerOK(t)

-----------------------------------------------------------------------------
(* Indices, slots and rings *)

(* An index has a slot, the same as the index one round later. *)
LEMMA SlotOf ==
  ASSUME NEW i \in Nat
  PROVE  i % RingSize \in Slot /\ (i + RingSize) % RingSize = i % RingSize
<1>0. RingSize \in Nat \ {0}
  BY LCRQAssumption
<1> DEFINE q == i \div RingSize
           p == (i + RingSize) \div RingSize
           a == i % RingSize
           b == (i + RingSize) % RingSize
<1>1. q \in Int /\ a \in 0..RingSize - 1 /\ i = RingSize * q + a
  BY <1>0
<1>2. p \in Int /\ b \in 0..RingSize - 1 /\ i + RingSize = RingSize * p + b
  BY <1>0
<1> HIDE DEF q, p, a, b
<1> DEFINE k == p - q - 1
<1>3. k \in Int /\ RingSize * k = a - b
  BY <1>1, <1>2, <1>0
<1> HIDE DEF k
<1>4. k < 1
  <2>1. SUFFICES ASSUME k >= 1 PROVE FALSE
    BY <1>3
  <2>2. RingSize * k >= RingSize
    BY <1>3, <2>1, <1>0
  <2> QED
    BY <1>1, <1>2, <1>3, <2>2, <1>0
<1>5. k > -1
  <2>1. SUFFICES ASSUME k <= -1 PROVE FALSE
    BY <1>3
  <2>2. RingSize * k <= -RingSize
    BY <1>3, <2>1, <1>0
  <2> QED
    BY <1>1, <1>2, <1>3, <2>2, <1>0
<1>6. a = b
  BY <1>1, <1>2, <1>3, <1>4, <1>5, <1>0
<1> QED
  BY <1>1, <1>6 DEF a, b, Slot

(* A slot is its own first index. *)
LEMMA SlotIsIndex == ASSUME NEW c \in Slot PROVE c \in Nat /\ c % RingSize = c
  BY LCRQAssumption DEF Slot

(* The rings one is prepared with. *)
LEMMA NewRings ==
  /\ EmptyRing \in RingType
  /\ \A v \in Value : NewRing(v) \in RingType
<1>1. 0 \in Slot
  BY LCRQAssumption DEF Slot
<1>2. EmptyRing \in RingType
  BY SlotIsIndex DEF EmptyRing, RingType, CellType
<1> QED
  BY <1>1, <1>2 DEF NewRing, RingType, CellType

(* What a step does to the rings: only the cell e of ring q changes, to x. *)
CellBecomes(q, e, x) ==
  /\ rings' \in Seq(RingType) /\ Len(rings') = Len(rings)
  /\ \A r \in 1..Len(rings) :
       /\ rings'[r].head = rings[r].head
       /\ rings'[r].tail = rings[r].tail
       /\ rings'[r].closed = rings[r].closed
       /\ \A c \in Slot : rings'[r].cell[c] = IF r = q /\ c = e THEN x ELSE rings[r].cell[c]

(* Only the indices and the closed bit of ring q change, and that one is never
   cleared. *)
EndsBecome(q, h, n) ==
  /\ rings' \in Seq(RingType) /\ Len(rings') = Len(rings)
  /\ \A r \in 1..Len(rings) :
       /\ rings'[r].cell = rings[r].cell
       /\ rings'[r].head = IF r = q THEN h ELSE rings[r].head
       /\ rings'[r].tail = IF r = q THEN n ELSE rings[r].tail
       /\ rings[r].closed => rings'[r].closed

(* Ring x is linked. *)
RingLinked(x) ==
  /\ rings' \in Seq(RingType) /\ Len(rings') = Len(rings) + 1
  /\ \A r \in 1..Len(rings) : rings'[r] = rings[r]
  /\ rings'[Len(rings) + 1] = x

(* A successful compare-and-swap of a cell. *)
LEMMA SetCellIs ==
  ASSUME AllTypes, NEW t \in Thread, NEW x \in CellType, SetCell(t, x)
  PROVE  CellBecomes(my[t].rq, my[t].index % RingSize, x)
<1> DEFINE q == my[t].rq
           e == my[t].index % RingSize
           ring == [rings[q] EXCEPT !.cell = [rings[q].cell EXCEPT ![e] = x]]
<1>1. q \in 1..Len(rings) /\ e \in Slot
  BY SlotOf DEF AllTypes, LocalType
<1>2. rings' = [rings EXCEPT ![q] = ring]
  BY <1>1 DEF SetCell, AllTypes
<1>3. rings[q] \in RingType
  BY <1>1 DEF AllTypes
<1>4. /\ ring \in RingType /\ ring.head = rings[q].head /\ ring.tail = rings[q].tail
      /\ ring.closed = rings[q].closed
      /\ \A c \in Slot : ring.cell[c] = IF c = e THEN x ELSE rings[q].cell[c]
  BY <1>1, <1>3 DEF RingType
<1> HIDE DEF q, e, ring
<1>5. rings' \in Seq(RingType) /\ Len(rings') = Len(rings)
      /\ \A r \in 1..Len(rings) : rings'[r] = IF r = q THEN ring ELSE rings[r]
  BY <1>1, <1>2, <1>4 DEF AllTypes
<1> QED
  BY <1>4, <1>5 DEF CellBecomes, q, e

(* The steps on the ends of a ring. *)
LEMMA EndsAre ==
  ASSUME AllTypes, NEW q \in 1..Len(rings)
  PROVE  /\ rings' = [rings EXCEPT ![q].tail = @ + 1] =>
              EndsBecome(q, rings[q].head, rings[q].tail + 1)
         /\ rings' = [rings EXCEPT ![q].head = @ + 1] =>
              EndsBecome(q, rings[q].head + 1, rings[q].tail)
         /\ rings' = [rings EXCEPT ![q].closed = TRUE] =>
              EndsBecome(q, rings[q].head, rings[q].tail)
         /\ \A n \in Nat : rings' = [rings EXCEPT ![q].tail = n] =>
              EndsBecome(q, rings[q].head, n)
<1>1. rings[q] \in RingType /\ rings \in Seq(RingType)
  BY DEF AllTypes
<1>2. ASSUME NEW n \in Nat, NEW h \in Nat, NEW b \in {rings[q].closed, TRUE},
             rings' = [rings EXCEPT ![q] = [rings[q] EXCEPT !.head = h, !.tail = n, !.closed = b]]
      PROVE  EndsBecome(q, h, n)
  <2> DEFINE ring == [rings[q] EXCEPT !.head = h, !.tail = n, !.closed = b]
  <2>1. /\ ring \in RingType /\ ring.head = h /\ ring.tail = n /\ (rings[q].closed => ring.closed)
        /\ ring.cell = rings[q].cell
    BY <1>1 DEF RingType
  <2>2. rings' = [rings EXCEPT ![q] = ring]
    BY <1>2
  <2> HIDE DEF ring
  <2> QED
    BY <1>1, <2>1, <2>2 DEF EndsBecome
<1>3. /\ rings[q].head \in Nat /\ rings[q].tail \in Nat /\ rings[q].closed \in BOOLEAN
      /\ rings[q].head + 1 \in Nat /\ rings[q].tail + 1 \in Nat
  BY <1>1 DEF RingType
<1>4. ASSUME rings' = [rings EXCEPT ![q].tail = @ + 1]
      PROVE  EndsBecome(q, rings[q].head, rings[q].tail + 1)
  <2>1. rings' = [rings EXCEPT ![q] = [rings[q] EXCEPT !.head = rings[q].head, !.tail = rings[q].tail + 1,
                                                       !.closed = rings[q].closed]]
    BY <1>1, <1>4 DEF RingType
  <2> QED
    BY <1>2, <1>3, <2>1
<1>5. ASSUME rings' = [rings EXCEPT ![q].head = @ + 1]
      PROVE  EndsBecome(q, rings[q].head + 1, rings[q].tail)
  <2>1. rings' = [rings EXCEPT ![q] = [rings[q] EXCEPT !.head = rings[q].head + 1, !.tail = rings[q].tail,
                                                       !.closed = rings[q].closed]]
    BY <1>1, <1>5 DEF RingType
  <2> QED
    BY <1>2, <1>3, <2>1
<1>6. ASSUME rings' = [rings EXCEPT ![q].closed = TRUE]
      PROVE  EndsBecome(q, rings[q].head, rings[q].tail)
  <2>1. rings' = [rings EXCEPT ![q] = [rings[q] EXCEPT !.head = rings[q].head, !.tail = rings[q].tail,
                                                       !.closed = TRUE]]
    BY <1>1, <1>6 DEF RingType
  <2> QED
    BY <1>2, <1>3, <2>1
<1>7. ASSUME NEW n \in Nat, rings' = [rings EXCEPT ![q].tail = n]
      PROVE  EndsBecome(q, rings[q].head, n)
  <2>1. rings' = [rings EXCEPT ![q] = [rings[q] EXCEPT !.head = rings[q].head, !.tail = n,
                                                       !.closed = rings[q].closed]]
    BY <1>1, <1>7 DEF RingType
  <2> QED
    BY <1>2, <1>3, <2>1
<1> QED
  BY <1>4, <1>5, <1>6, <1>7

(* A ring is linked. *)
LEMMA LinkIs ==
  ASSUME AllTypes, NEW v \in Value, rings' = Append(rings, NewRing(v))
  PROVE  RingLinked(NewRing(v))
<1> DEFINE x == NewRing(v)
<1>1. x \in RingType
  BY NewRings
<1> HIDE DEF x
<1>2. rings' = Append(rings, x)
  BY DEF x
<1>3. RingLinked(x)
  BY <1>1, <1>2 DEF RingLinked, AllTypes
<1> QED
  BY <1>3 DEF x

-----------------------------------------------------------------------------
(* Types *)

(* The rings are as they should be, and none is lost. *)
RingsTyped ==
  /\ rings' \in Seq(RingType) /\ Len(rings) <= Len(rings')
  /\ \A r \in 1..Len(rings'), c \in Slot : rings'[r].cell[c].idx % RingSize = c

LEMMA RingsStayTyped ==
  ASSUME AllTypes
  PROVE  /\ UNCHANGED rings => RingsTyped
         /\ \A q \in 1..Len(rings), e \in Slot, x \in CellType :
              CellBecomes(q, e, x) /\ x.idx % RingSize = e => RingsTyped
         /\ \A q \in 1..Len(rings), h, n \in Nat : EndsBecome(q, h, n) => RingsTyped
         /\ \A v \in Value : RingLinked(NewRing(v)) => RingsTyped
<1>1. UNCHANGED rings => RingsTyped
  BY DEF RingsTyped, AllTypes
<1>2. ASSUME NEW q \in 1..Len(rings), NEW e \in Slot, NEW x \in CellType, CellBecomes(q, e, x),
             x.idx % RingSize = e
      PROVE  RingsTyped
  BY <1>2 DEF RingsTyped, AllTypes, CellBecomes
<1>3. ASSUME NEW q \in 1..Len(rings), NEW h \in Nat, NEW n \in Nat, EndsBecome(q, h, n)
      PROVE  RingsTyped
  BY <1>3 DEF RingsTyped, AllTypes, EndsBecome
<1>4. ASSUME NEW v \in Value, RingLinked(NewRing(v)) PROVE RingsTyped
  <2>1. \A c \in Slot : NewRing(v).cell[c].idx = c
    BY LCRQAssumption DEF NewRing, EmptyRing, Slot
  <2> DEFINE x == NewRing(v)
  <2> HIDE DEF x
  <2>2. Len(rings) \in Nat /\ rings' \in Seq(RingType) /\ Len(rings') = Len(rings) + 1
    BY <1>4 DEF AllTypes, RingLinked
  <2>3. ASSUME NEW r \in 1..Len(rings'), NEW c \in Slot PROVE rings'[r].cell[c].idx % RingSize = c
    <3>1. CASE r \in 1..Len(rings)
      BY <1>4, <3>1 DEF AllTypes, RingLinked
    <3>2. CASE r = Len(rings) + 1
      BY <1>4, <2>1, <3>2, SlotIsIndex DEF RingLinked
    <3> QED
      BY <2>2, <3>1, <3>2
  <2> QED
    BY <2>2, <2>3 DEF RingsTyped
<1> QED
  BY <1>1, <1>2, <1>3, <1>4

(* One thread moves on. *)
Moves(t, l) ==
  /\ Goto(t, l)
  /\ t \in Enqueuer => l \in EnqueueLabel \cup {"idle"}
  /\ t \in Dequeuer => l \in DequeueLabel \cup {"idle", "got"}
  /\ my' \in [Thread -> LocalType]
  /\ \A u \in Thread \ {t} : my'[u] = my[u]
  /\ my'[t].rq \in 1..Len(rings')

LEMMA TypesHold ==
  ASSUME AllTypes, NEW t \in Thread, NEW l, RingsTyped, Moves(t, l), Remember,
         head' \in 1..Len(rings'), tail' \in 1..Len(rings'),
         arg' \in [Enqueuer -> Value \cup {EMPTY}], put' \subseteq Value, before' \subseteq Value \X Value
  PROVE  AllTypes'
<1> USE DEF AllTypes
<1>1. t \in Enqueuer => t \notin Dequeuer
  BY LCRQAssumption
<1>2. pc' \in [Thread -> EnqueueLabel \cup DequeueLabel \cup {"idle", "got"}]
  BY DEF Moves, Goto, Thread
<1>3. \A u \in Thread : pc'[u] = IF u = t THEN l ELSE pc[u]
  BY DEF Moves, Goto
<1>4. \A u \in Thread : my'[u].rq \in 1..Len(rings')
  BY DEF Moves, RingsTyped
<1>5. wasEmpty' \in [Dequeuer -> BOOLEAN]
  <2>1. \A u \in Dequeuer : (pc'[u] \in DequeueLabel /\ (wasEmpty[u] \/ Added' = {})) \in BOOLEAN
    OBVIOUS
  <2> HIDE DEF AllTypes
  <2> QED
    BY <2>1 DEF Remember
<1>6. \A u \in Enqueuer : pc'[u] \in EnqueueLabel \cup {"idle"}
  BY <1>3 DEF Moves, Thread
<1>7. \A u \in Dequeuer : pc'[u] \in DequeueLabel \cup {"idle", "got"}
  BY <1>3 DEF Moves, Thread
<1> QED
  BY <1>2, <1>4, <1>5, <1>6, <1>7 DEF Moves, RingsTyped

(* The locals a step leaves. *)
LEMMA LocalsTyped ==
  ASSUME AllTypes, NEW t \in Thread
  PROVE  /\ NoLocals \in LocalType /\ my[t] \in LocalType /\ my[t].rq \in 1..Len(rings)
         /\ my[t].index \in Nat /\ my[t].index % RingSize \in Slot
         /\ Ring(t) \in RingType /\ Cell(t) \in CellType /\ TailOf(t) \in [index : Nat, closed : BOOLEAN]
         /\ Len(rings) \in Nat /\ 1 \in 1..Len(rings)
<1>1. NoLocals \in LocalType
  BY LCRQAssumption DEF NoLocals, LocalType, NoCell, NoTail, CellType
<1>2. my[t] \in LocalType /\ my[t].rq \in 1..Len(rings) /\ my[t].index \in Nat
  BY DEF AllTypes, LocalType
<1>3. my[t].index % RingSize \in Slot
  BY <1>2, SlotOf
<1>4. Ring(t) \in RingType
  BY <1>2 DEF AllTypes, Ring
<1> QED
  BY <1>1, <1>2, <1>3, <1>4 DEF Cell, TailOf, RingType, AllTypes

LEMMA InitTypes == Init => AllTypes
<1> SUFFICES ASSUME Init PROVE AllTypes
  OBVIOUS
<1>1. <<EmptyRing>> \in Seq(RingType) /\ Len(<<EmptyRing>>) = 1 /\ <<EmptyRing>>[1] = EmptyRing
  BY NewRings
<1>2. \A c \in Slot : EmptyRing.cell[c].idx = c
  BY DEF EmptyRing
<1>3. NoLocals \in LocalType /\ NoLocals.rq = 1
  BY LCRQAssumption DEF NoLocals, LocalType, NoCell, NoTail, CellType
<1> HIDE DEF NoLocals, EmptyRing
<1> QED
  BY <1>1, <1>2, <1>3, SlotIsIndex DEF Init, AllTypes, Thread

(* enqueue *)
LEMMA EnqueueTyped ==
  ASSUME LCRQInv, NEW t \in Enqueuer, Remember,
         Enqueuing(t) \/ \E v \in Value : EnqueueCall(t, v)
  PROVE  AllTypes'
<1> USE DEF EnqueueLabel
<1>0. t \in Thread /\ t \notin Dequeuer /\ AllTypes /\ EnqueuerOK(t)
  BY LCRQAssumption DEF Thread, LCRQInv
<1>a. /\ NoLocals \in LocalType /\ my[t] \in LocalType /\ my[t].rq \in 1..Len(rings)
      /\ my[t].index \in Nat /\ my[t].index % RingSize \in Slot
      /\ Ring(t) \in RingType /\ Cell(t) \in CellType /\ Len(rings) \in Nat /\ 1 \in 1..Len(rings)
  BY <1>0, LocalsTyped
<1>b. /\ my \in [Thread -> LocalType] /\ arg \in [Enqueuer -> Value \cup {EMPTY}]
      /\ put \subseteq Value /\ before \subseteq Value \X Value
      /\ head \in 1..Len(rings) /\ tail \in 1..Len(rings)
  BY <1>0 DEF AllTypes
<1> HIDE DEF NoLocals
<1>c. /\ NoLocals.rq = 1
      /\ \A k \in 0..CloseTries : [NoLocals EXCEPT !.tries = k] \in LocalType /\ [NoLocals EXCEPT !.tries = k].rq = 1
      /\ \A q \in Nat : [NoLocals EXCEPT !.rq = q] \in LocalType /\ [NoLocals EXCEPT !.rq = q].rq = q
  <2>1. NoLocals.rq = 1
    BY DEF NoLocals
  <2> QED
    BY <1>a, <2>1 DEF LocalType
<1>d. my[t].tries \in 0..CloseTries /\ my[t].rq \in Nat
  BY <1>a DEF LocalType
(* the cases in which the rings stay, and the locals are reset to the tries *)
<1>e. ASSUME NEW l \in EnqueueLabel \cup {"idle"}, Goto(t, l), UNCHANGED rings,
             KeepTries(t) \/ UNCHANGED my \/ my' = [my EXCEPT ![t] = NoLocals],
             head' \in 1..Len(rings), tail' \in 1..Len(rings), 
             UNCHANGED history, arg' \in [Enqueuer -> Value \cup {EMPTY}]
      PROVE  AllTypes'
  <2>1. RingsTyped
    BY <1>0, <1>e, RingsStayTyped
  <2>2. my' \in [Thread -> LocalType] /\ my'[t].rq \in 1..Len(rings) /\ \A u \in Thread \ {t} : my'[u] = my[u]
    BY <1>0, <1>a, <1>b, <1>c, <1>d, <1>e DEF KeepTries
  <2>3. Moves(t, l)
    BY <1>0, <1>e, <2>2 DEF Moves
  <2> QED
    BY <1>0, <1>b, <1>e, <2>1, <2>3, TypesHold DEF history
<1>f. ASSUME NEW l \in EnqueueLabel, EnqueueGoes(t, l), UNCHANGED shared, NEW m \in LocalType, m.rq \in 1..Len(rings),
             my' = [my EXCEPT ![t] = m]
      PROVE  AllTypes'
  <2>1. RingsTyped
    BY <1>0, <1>f, RingsStayTyped DEF shared
  <2>2. my' \in [Thread -> LocalType] /\ my'[t].rq \in 1..Len(rings) /\ \A u \in Thread \ {t} : my'[u] = my[u]
    BY <1>0, <1>b, <1>f
  <2>3. Moves(t, l)
    BY <1>0, <1>f, <2>2 DEF Moves, EnqueueGoes, shared
  <2> QED
    BY <1>0, <1>b, <1>f, <2>1, <2>3, TypesHold DEF history, EnqueueGoes, shared
<1>1. ASSUME NEW v \in Value, EnqueueCall(t, v) PROVE AllTypes'
  <2>1. RingsTyped
    BY <1>0, <1>1, RingsStayTyped DEF EnqueueCall, shared
  <2>2. Moves(t, "enq_tail")
    BY <1>0, <1>1, <1>a, <1>b DEF Moves, EnqueueCall, shared
  <2>3. Added \subseteq Value
    <3>1. ASSUME NEW r \in 1..Len(rings), NEW c \in Slot
          PROVE  rings[r].cell[c].val \in Value \cup {EMPTY}
      <4>1. rings[r] \in RingType
        BY <1>0 DEF AllTypes
      <4> QED
        BY <4>1 DEF RingType, CellType
    <3>2. \A r \in 1..Len(rings) : InRing(r) \subseteq Value
      BY <3>1 DEF InRing
    <3> QED
      BY <3>2 DEF Added, Undrawn
  <2> QED
    BY <1>0, <1>1, <1>b, <2>1, <2>2, <2>3, TypesHold DEF EnqueueCall, shared
<1>2. ASSUME EnqueueTail(t) PROVE AllTypes'
  <2> DEFINE m == [my[t] EXCEPT !.rq = tail]
  <2>1. m \in LocalType /\ m.rq \in 1..Len(rings)
    <3>1. tail \in Nat
      BY <1>a, <1>b
    <3> QED
      BY <1>a, <1>b, <3>1 DEF LocalType
  <2>2. my' = [my EXCEPT ![t] = m]
    BY <1>2, <1>b DEF EnqueueTail
  <2> HIDE DEF m
  <2> QED
    BY <1>2, <1>f, <2>1, <2>2 DEF EnqueueTail
<1>3. ASSUME EnqueueNext(t) \/ EnqueueHead(t) PROVE AllTypes'
  BY <1>3, <1>e, <1>b DEF EnqueueNext, EnqueueHead, EnqueueGoes, shared
<1>4. ASSUME EnqueueHelp(t) \/ EnqueueSwing(t) PROVE AllTypes'
  <2>1. tail' \in 1..Len(rings)
    BY <1>0, <1>4, <1>a, <1>b, <1>d DEF EnqueueHelp, EnqueueSwing, SwingTail, EnqueuerOK
  <2>2. arg' \in [Enqueuer -> Value \cup {EMPTY}]
    BY <1>4, <1>b DEF EnqueueHelp, EnqueueSwing, EnqueueGoes, EnqueueReturn
  <2>3. \E l \in EnqueueLabel \cup {"idle"} : Goto(t, l)
    BY <1>4 DEF EnqueueHelp, EnqueueSwing, EnqueueGoes, EnqueueReturn
  <2> QED
    BY <1>4, <1>e, <1>b, <2>1, <2>2, <2>3 DEF EnqueueHelp, EnqueueSwing, EnqueueGoes, EnqueueReturn
<1>5. ASSUME EnqueueDraw(t) PROVE AllTypes'
  <2> DEFINE m == [my[t] EXCEPT !.index = Ring(t).tail]
  <2>1. m \in LocalType /\ m.rq \in 1..Len(rings)
    BY <1>a DEF LocalType, RingType
  <2>2. my' = [my EXCEPT ![t] = m]
    BY <1>0, <1>5, <1>b DEF EnqueueDraw
  <2> HIDE DEF m
  <2>3. EndsBecome(my[t].rq, Ring(t).head, Ring(t).tail + 1)
    BY <1>0, <1>5, <1>a, EndsAre DEF EnqueueDraw, Ring
  <2>4. Ring(t).head \in Nat /\ Ring(t).tail + 1 \in Nat
    BY <1>a DEF RingType
  <2>5. RingsTyped /\ Len(rings') = Len(rings)
    <3>1. RingsTyped
      BY <1>0, <1>a, <2>3, <2>4, RingsStayTyped
    <3> QED
      BY <2>3, <3>1 DEF EndsBecome
  <2>6. my' \in [Thread -> LocalType] /\ my'[t].rq \in 1..Len(rings) /\ \A u \in Thread \ {t} : my'[u] = my[u]
    BY <1>0, <1>b, <2>1, <2>2
  <2>7. \E l \in EnqueueLabel : Moves(t, l)
    BY <1>0, <1>5, <2>5, <2>6 DEF EnqueueDraw, EnqueueGoes, Moves
  <2> QED
    BY <1>0, <1>5, <1>b, <2>5, <2>7, TypesHold DEF EnqueueDraw, EnqueueGoes, history
<1>6. ASSUME EnqueueIdx(t) PROVE AllTypes'
  <2> DEFINE m == [my[t] EXCEPT !.seen.idx = Cell(t).idx, !.seen.unsafe = Cell(t).unsafe]
  <2>1. m \in LocalType /\ m.rq \in 1..Len(rings)
    BY <1>a DEF LocalType, CellType
  <2>2. my' = [my EXCEPT ![t] = m]
    BY <1>0, <1>6, <1>b DEF EnqueueIdx, ReadIdx
  <2> HIDE DEF m
  <2> QED
    BY <1>6, <1>f, <2>1, <2>2 DEF EnqueueIdx
<1>7. ASSUME EnqueueVal(t) PROVE AllTypes'
  <2> DEFINE m == [my[t] EXCEPT !.seen.val = Cell(t).val]
  <2>1. m \in LocalType /\ m.rq \in 1..Len(rings)
    BY <1>a DEF LocalType, CellType
  <2>2. my' = [my EXCEPT ![t] = m]
    BY <1>0, <1>7, <1>b DEF EnqueueVal, ReadVal
  <2>3. \E l \in EnqueueLabel : EnqueueGoes(t, l)
    BY <1>7 DEF EnqueueVal, Fill
  <2> HIDE DEF m
  <2> QED
    BY <1>7, <1>f, <2>1, <2>2, <2>3 DEF EnqueueVal
<1>8. ASSUME EnqueueCas(t) PROVE AllTypes'
  <2>1. CASE CellUnchanged(t)
    <3> DEFINE x == [idx |-> my[t].index, unsafe |-> FALSE, val |-> arg[t]]
    <3>1. x \in CellType
      BY <1>a, <1>b DEF CellType
    <3>2. x.idx = my[t].index
      OBVIOUS
    <3>3. SetCell(t, x) /\ EnqueueReturn(t) /\ UNCHANGED <<head, tail>>
      BY <1>8, <2>1 DEF EnqueueCas
    <3> HIDE DEF x
    <3>4. CellBecomes(my[t].rq, my[t].index % RingSize, x)
      BY <1>0, <3>1, <3>3, SetCellIs
    <3>5. RingsTyped /\ Len(rings') = Len(rings)
      BY <1>0, <1>a, <3>1, <3>2, <3>4, RingsStayTyped DEF CellBecomes
    <3>6. Moves(t, "idle")
      BY <1>0, <1>a, <1>b, <1>c, <3>3, <3>5 DEF Moves, EnqueueReturn
    <3> QED
      BY <1>0, <1>b, <3>3, <3>5, <3>6, TypesHold DEF EnqueueReturn, history
  <2>2. CASE ~CellUnchanged(t)
    BY <1>8, <1>b, <1>e, <2>2 DEF EnqueueCas, EnqueueGoes
  <2> QED
    BY <2>1, <2>2
<1>9. ASSUME EnqueueFull(t) PROVE AllTypes'
  <2> DEFINE m == [my[t] EXCEPT !.seen = NoCell, !.tries = IF @ < CloseTries THEN @ + 1 ELSE @]
  <2>1. CASE my[t].index - Ring(t).head >= RingSize
    <3> DEFINE k == IF my[t].tries < CloseTries THEN my[t].tries + 1 ELSE my[t].tries
    <3>0. NoCell \in CellType /\ k \in 0..CloseTries
      BY <1>d, LCRQAssumption DEF CellType, NoCell
    <3>1. m \in LocalType /\ m.rq \in 1..Len(rings)
      <4>1. m = [my[t] EXCEPT !.seen = NoCell, !.tries = k]
        BY <1>a DEF LocalType
      <4> HIDE DEF k, m
      <4> QED
        BY <1>a, <3>0, <4>1 DEF LocalType
    <3>2. my' = [my EXCEPT ![t] = m]
      BY <1>0, <1>9, <1>b, <2>1 DEF EnqueueFull
    <3> HIDE DEF m
    <3> QED
      BY <1>9, <1>f, <2>1, <3>1, <3>2 DEF EnqueueFull
  <2>2. CASE ~(my[t].index - Ring(t).head >= RingSize)
    BY <1>9, <1>b, <1>e, <2>2 DEF EnqueueFull, EnqueueGoes, shared
  <2> QED
    BY <2>1, <2>2
<1>10. ASSUME EnqueueClose(t) PROVE AllTypes'
  <2>1. CASE UNCHANGED rings
    <3>1. \E l \in EnqueueLabel : EnqueueGoes(t, l)
      BY <1>10 DEF EnqueueClose
    <3> QED
      BY <1>10, <1>b, <1>e, <2>1, <3>1 DEF EnqueueClose, EnqueueGoes
  <2>2. CASE rings' = [rings EXCEPT ![my[t].rq].closed = TRUE] /\ UNCHANGED my /\ EnqueueGoes(t, "enq_link")
    <3>1. EndsBecome(my[t].rq, Ring(t).head, Ring(t).tail)
      BY <1>0, <1>a, <2>2, EndsAre DEF Ring
    <3>2. Ring(t).head \in Nat /\ Ring(t).tail \in Nat
      BY <1>a DEF RingType
    <3>3. RingsTyped /\ Len(rings') = Len(rings)
      <4>1. RingsTyped
        BY <1>0, <1>a, <3>1, <3>2, RingsStayTyped
      <4> QED
        BY <3>1, <4>1 DEF EndsBecome
    <3>4. Moves(t, "enq_link")
      BY <1>0, <1>a, <1>b, <2>2, <3>3 DEF Moves, EnqueueGoes
    <3> QED
      BY <1>0, <1>10, <1>b, <2>2, <3>3, <3>4, TypesHold DEF EnqueueClose, EnqueueGoes, history
  <2> QED
    BY <1>10, <2>1, <2>2 DEF EnqueueClose
<1>11. ASSUME EnqueueLink(t) PROVE AllTypes'
  <2>1. CASE IsLast(my[t].rq)
    <3>1. arg[t] \in Value
      BY <1>0, <1>11, <1>b DEF EnqueueLink, EnqueuerOK
    <3>2. RingLinked(NewRing(arg[t]))
      BY <1>0, <1>11, <2>1, <3>1, LinkIs DEF EnqueueLink
    <3>3. RingsTyped /\ Len(rings') = Len(rings) + 1
      BY <1>0, <3>1, <3>2, RingsStayTyped DEF RingLinked
    <3> DEFINE m == [NoLocals EXCEPT !.rq = my[t].rq]
    <3>4. m \in LocalType /\ m.rq \in 1..Len(rings')
      BY <1>a, <1>c, <1>d, <3>3
    <3>5. my' = [my EXCEPT ![t] = m]
      BY <1>11, <2>1 DEF EnqueueLink
    <3> HIDE DEF m
    <3>6. my' \in [Thread -> LocalType] /\ my'[t].rq \in 1..Len(rings') /\ \A u \in Thread \ {t} : my'[u] = my[u]
      BY <1>0, <1>b, <3>4, <3>5
    <3>7. Moves(t, "enq_swing")
      BY <1>0, <1>11, <2>1, <3>6 DEF Moves, EnqueueLink, EnqueueGoes
    <3>8. head \in 1..Len(rings') /\ tail \in 1..Len(rings')
      BY <1>a, <1>b, <3>3
    <3> QED
      BY <1>0, <1>11, <1>b, <2>1, <3>3, <3>7, <3>8, TypesHold DEF EnqueueLink, EnqueueGoes, history
  <2>2. CASE ~IsLast(my[t].rq)
    BY <1>11, <1>b, <1>e, <2>2 DEF EnqueueLink, EnqueueGoes
  <2> QED
    BY <2>1, <2>2
<1> QED
  BY <1>1, <1>2, <1>3, <1>4, <1>5, <1>6, <1>7, <1>8, <1>9, <1>10, <1>11 DEF Enqueuing

(* dequeue *)
LEMMA DequeueTyped ==
  ASSUME LCRQInv, NEW t \in Dequeuer, Remember, UNCHANGED <<arg, history>>, Dequeuing(t) \/ DequeueCall(t)
  PROVE  AllTypes'
<1> USE DEF DequeueLabel, Waiting
<1>0. t \in Thread /\ t \notin Enqueuer /\ AllTypes /\ DequeuerOK(t)
  BY LCRQAssumption DEF Thread, LCRQInv
<1>a. /\ NoLocals \in LocalType /\ my[t] \in LocalType /\ my[t].rq \in 1..Len(rings)
      /\ my[t].index \in Nat /\ my[t].index % RingSize \in Slot
      /\ Ring(t) \in RingType /\ Cell(t) \in CellType /\ TailOf(t) \in [index : Nat, closed : BOOLEAN]
      /\ Len(rings) \in Nat /\ 1 \in 1..Len(rings)
  BY <1>0, LocalsTyped
<1>b. /\ my \in [Thread -> LocalType] /\ arg \in [Enqueuer -> Value \cup {EMPTY}]
      /\ put \subseteq Value /\ before \subseteq Value \X Value
      /\ head \in 1..Len(rings) /\ tail \in 1..Len(rings) /\ head \in Nat
  BY <1>0, <1>a DEF AllTypes
<1>c. my[t].seen \in CellType /\ my[t].tt \in [index : Nat, closed : BOOLEAN] /\ my[t].r \in 0..Patience + 1
      /\ my[t].h \in Nat /\ my[t].rq \in Nat
  BY <1>a DEF LocalType
<1>d. NoLocals.rq = 1 /\ RingSize \in Nat \ {0} /\ my[t].index + RingSize \in Nat
  BY <1>a, LCRQAssumption DEF NoLocals
<1> HIDE DEF NoLocals
(* the steps that leave the rings alone *)
<1>e. ASSUME NEW l \in DequeueLabel \cup {"idle", "got"}, Goto(t, l), UNCHANGED <<rings, tail>>,
             head' \in 1..Len(rings), NEW m \in LocalType, m.rq \in 1..Len(rings),
             my' = [my EXCEPT ![t] = m]
      PROVE  AllTypes'
  <2>1. RingsTyped
    BY <1>0, <1>e, RingsStayTyped
  <2>2. my' \in [Thread -> LocalType] /\ my'[t].rq \in 1..Len(rings) /\ \A u \in Thread \ {t} : my'[u] = my[u]
    BY <1>0, <1>b, <1>e
  <2>3. Moves(t, l)
    BY <1>0, <1>e, <2>2 DEF Moves
  <2> QED
    BY <1>0, <1>b, <1>e, <2>1, <2>3, TypesHold DEF history
<1>f. ASSUME NEW l \in DequeueLabel \cup {"idle", "got"}, Goto(t, l), UNCHANGED <<rings, tail, my>>,
             head' \in 1..Len(rings)
      PROVE  AllTypes'
  <2>1. my' = [my EXCEPT ![t] = my[t]]
    BY <1>0, <1>b, <1>f
  <2> QED
    BY <1>a, <1>e, <1>f, <2>1
(* those that change a cell *)
<1>g. ASSUME NEW l \in DequeueLabel \cup {"idle", "got"}, Goto(t, l), UNCHANGED <<head, tail>>,
             NEW x \in CellType, SetCell(t, x), x.idx % RingSize = my[t].index % RingSize,
             NEW m \in LocalType, m.rq \in 1..Len(rings), my' = [my EXCEPT ![t] = m]
      PROVE  AllTypes'
  <2>1. CellBecomes(my[t].rq, my[t].index % RingSize, x)
    BY <1>0, <1>g, SetCellIs
  <2>2. RingsTyped
    BY <1>0, <1>a, <1>g, <2>1, RingsStayTyped
  <2>3. Len(rings') = Len(rings)
    BY <2>1 DEF CellBecomes
  <2>4. my' \in [Thread -> LocalType] /\ my'[t].rq \in 1..Len(rings) /\ \A u \in Thread \ {t} : my'[u] = my[u]
    BY <1>0, <1>b, <1>g
  <2>5. Moves(t, l)
    BY <1>0, <1>g, <2>3, <2>4 DEF Moves
  <2> QED
    BY <1>0, <1>b, <1>g, <2>2, <2>3, <2>5, TypesHold DEF history
(* those that change the ends of a ring *)
<1>h. ASSUME NEW l \in DequeueLabel \cup {"idle", "got"}, Goto(t, l), UNCHANGED <<head, tail>>,
             NEW h \in Nat, NEW n \in Nat, EndsBecome(my[t].rq, h, n),
             NEW m \in LocalType, m.rq \in 1..Len(rings), my' = [my EXCEPT ![t] = m]
      PROVE  AllTypes'
  <2>1. RingsTyped
    BY <1>0, <1>a, <1>h, RingsStayTyped
  <2>2. Len(rings') = Len(rings)
    BY <1>h DEF EndsBecome
  <2>3. my' \in [Thread -> LocalType] /\ my'[t].rq \in 1..Len(rings) /\ \A u \in Thread \ {t} : my'[u] = my[u]
    BY <1>0, <1>b, <1>h
  <2>4. Moves(t, l)
    BY <1>0, <1>h, <2>2, <2>3 DEF Moves
  <2> QED
    BY <1>0, <1>b, <1>h, <2>1, <2>2, <2>4, TypesHold DEF history
<1>1. ASSUME DequeueCall(t) \/ DequeueNext(t) \/ DequeueAgain(t) \/ DequeueReturn(t) \/ DequeueTest(t)
      PROVE  AllTypes'
  <2>1. \E l \in DequeueLabel \cup {"idle", "got"} : Goto(t, l)
    BY <1>1 DEF DequeueCall, DequeueNext, AfterDrained, DequeueAgain, DequeueReturn, DequeueTest
  <2>2. UNCHANGED shared
    BY <1>1 DEF DequeueCall, DequeueNext, DequeueAgain, DequeueReturn, DequeueTest
  <2>3. UNCHANGED my \/ KeepIndex(t) \/ my' = [my EXCEPT ![t] = NoLocals]
    BY <1>1 DEF DequeueCall, DequeueNext, DequeueAgain, DequeueReturn, DequeueTest
  <2>4. CASE UNCHANGED my
    BY <1>b, <1>f, <2>1, <2>2, <2>4 DEF shared
  <2>5. CASE KeepIndex(t)
    <3> DEFINE m == [NoLocals EXCEPT !.rq = my[t].rq, !.index = my[t].index]
    <3>1. m \in LocalType /\ m.rq = my[t].rq
      BY <1>a, <1>c DEF LocalType
    <3>2. my' = [my EXCEPT ![t] = m]
      BY <2>5 DEF KeepIndex
    <3> HIDE DEF m
    <3> QED
      BY <1>a, <1>b, <1>e, <2>1, <2>2, <3>1, <3>2 DEF shared
  <2>6. CASE my' = [my EXCEPT ![t] = NoLocals]
    BY <1>a, <1>b, <1>d, <1>e, <2>1, <2>2, <2>6 DEF shared
  <2> QED
    BY <2>3, <2>4, <2>5, <2>6
<1>2. ASSUME DequeueHead(t) PROVE AllTypes'
  <2> DEFINE m == [NoLocals EXCEPT !.rq = head]
  <2>1. m \in LocalType /\ m.rq = head
    BY <1>a, <1>b DEF LocalType
  <2>2. my' = [my EXCEPT ![t] = m]
    BY <1>2 DEF DequeueHead
  <2> HIDE DEF m
  <2> QED
    BY <1>2, <1>b, <1>e, <2>1, <2>2 DEF DequeueHead, shared
<1>3. ASSUME DequeueDraw(t) PROVE AllTypes'
  <2> DEFINE m == [my[t] EXCEPT !.index = Ring(t).head]
  <2>1. m \in LocalType /\ m.rq = my[t].rq
    BY <1>a DEF LocalType, RingType
  <2>2. my' = [my EXCEPT ![t] = m]
    BY <1>0, <1>3, <1>b DEF DequeueDraw
  <2> HIDE DEF m
  <2>3. EndsBecome(my[t].rq, Ring(t).head + 1, Ring(t).tail)
    BY <1>0, <1>3, <1>a, EndsAre DEF DequeueDraw, Ring
  <2>4. Ring(t).head + 1 \in Nat /\ Ring(t).tail \in Nat
    BY <1>a DEF RingType
  <2> QED
    BY <1>3, <1>a, <1>h, <2>1, <2>2, <2>3, <2>4 DEF DequeueDraw
<1>4. ASSUME DequeueIdx(t) PROVE AllTypes'
  <2> DEFINE m == [my[t] EXCEPT !.seen.idx = Cell(t).idx, !.seen.unsafe = Cell(t).unsafe]
  <2>1. m \in LocalType /\ m.rq = my[t].rq
    BY <1>a DEF LocalType, CellType
  <2>2. my' = [my EXCEPT ![t] = m]
    BY <1>0, <1>4, <1>b DEF DequeueIdx, ReadIdx
  <2> HIDE DEF m
  <2> QED
    BY <1>4, <1>a, <1>b, <1>e, <2>1, <2>2 DEF DequeueIdx, shared
<1>s. ASSUME NEW tt \in [index : Nat, closed : BOOLEAN], SkipOrWait(t, tt), UNCHANGED shared
      PROVE  AllTypes'
  <2> DEFINE k == IF my[t].seen.unsafe \/ GiveUp(t, tt) THEN my[t].r ELSE my[t].r + 1
             s == [my[t].seen EXCEPT !.val = EMPTY]
             m == [my[t] EXCEPT !.tt = tt, !.seen = s, !.r = k]
  <2>1. k \in 0..Patience + 1
    BY <1>c, LCRQAssumption DEF GiveUp
  <2>2. s \in CellType
    BY <1>c DEF CellType
  <2>3. my' = [my EXCEPT ![t] = m]
    <3>1. CASE my[t].seen.unsafe \/ GiveUp(t, tt)
      BY <1>0, <1>a, <1>b, <1>s, <3>1 DEF SkipOrWait, LocalType
    <3>2. CASE ~(my[t].seen.unsafe \/ GiveUp(t, tt))
      BY <1>0, <1>a, <1>b, <1>s, <3>2 DEF SkipOrWait, Counted, LocalType
    <3> QED
      BY <3>1, <3>2
  <2>4. \E l \in DequeueLabel : Goto(t, l)
    BY <1>s DEF SkipOrWait
  <2> HIDE DEF k, s
  <2>5. m \in LocalType /\ m.rq = my[t].rq
    BY <1>a, <1>s, <2>1, <2>2 DEF LocalType
  <2> HIDE DEF m
  <2> QED
    BY <1>a, <1>b, <1>e, <1>s, <2>3, <2>4, <2>5 DEF shared
<1>5. ASSUME DequeueVal(t) PROVE AllTypes'
  <2>1. CASE SkipOrWait(t, my[t].tt)
    BY <1>5, <1>c, <1>s, <2>1 DEF DequeueVal
  <2>2. CASE ReadVal(t) /\ \E l \in DequeueLabel : Goto(t, l)
    <3> DEFINE m == [my[t] EXCEPT !.seen.val = Cell(t).val]
    <3>1. m \in LocalType /\ m.rq = my[t].rq
      BY <1>a DEF LocalType, CellType
    <3>2. my' = [my EXCEPT ![t] = m]
      BY <1>0, <1>b, <2>2 DEF ReadVal
    <3> HIDE DEF m
    <3> QED
      BY <1>5, <1>a, <1>b, <1>e, <2>2, <3>1, <3>2 DEF DequeueVal, shared
  <2> QED
    BY <1>5, <2>1, <2>2 DEF DequeueVal
<1>6. ASSUME DequeueLook(t) PROVE AllTypes'
  BY <1>6, <1>a, <1>s DEF DequeueLook
<1>7. ASSUME DequeueTake(t) PROVE AllTypes'
  <2>1. CASE CellUnchanged(t)
    <3> DEFINE x == [my[t].seen EXCEPT !.idx = NextRound(t), !.val = EMPTY]
               s == [NoLocals.seen EXCEPT !.val = my[t].seen.val]
               m == [NoLocals EXCEPT !.seen = s]
    <3>1. x \in CellType /\ x.idx = my[t].index + RingSize
      BY <1>a, <1>c, <1>d DEF CellType, NextRound
    <3>2. s \in CellType
      BY <1>a, <1>c DEF LocalType, CellType
    <3>3. SetCell(t, x) /\ Goto(t, "got") /\ UNCHANGED <<head, tail>>
      BY <1>7, <2>1 DEF DequeueTake
    <3>4. my' = [my EXCEPT ![t] = m]
      BY <1>7, <1>a, <2>1 DEF DequeueTake, LocalType
    <3> HIDE DEF x, s
    <3>5. m \in LocalType /\ m.rq = 1
      BY <1>a, <1>d, <3>2 DEF LocalType
    <3>6. x.idx % RingSize = my[t].index % RingSize
      BY <1>a, <3>1, SlotOf
    <3> HIDE DEF m
    <3> QED
      BY <1>a, <1>g, <3>1, <3>3, <3>4, <3>5, <3>6
  <2>2. CASE ~CellUnchanged(t)
    BY <1>7, <1>b, <1>f, <2>2 DEF DequeueTake
  <2> QED
    BY <2>1, <2>2
<1>8. ASSUME DequeueMark(t) PROVE AllTypes'
  <2>1. CASE CellUnchanged(t)
    <3> DEFINE x == [my[t].seen EXCEPT !.unsafe = TRUE]
    <3>1. x \in CellType /\ x.idx = Cell(t).idx
      BY <1>a, <1>c, <2>1 DEF CellType, CellUnchanged
    <3>2. SetCell(t, x) /\ Goto(t, "deq_test") /\ UNCHANGED <<head, tail, my>>
      BY <1>8, <2>1 DEF DequeueMark
    <3> HIDE DEF x
    <3>3. x.idx % RingSize = my[t].index % RingSize
      BY <1>0, <1>a, <3>1 DEF AllTypes, Cell, Ring
    <3>4. my' = [my EXCEPT ![t] = my[t]]
      BY <1>0, <1>b, <3>2
    <3> QED
      BY <1>a, <1>g, <3>1, <3>2, <3>3, <3>4
  <2>2. CASE ~CellUnchanged(t)
    BY <1>8, <1>b, <1>f, <2>2 DEF DequeueMark
  <2> QED
    BY <2>1, <2>2
<1>9. ASSUME DequeueSkip(t) PROVE AllTypes'
  <2>1. CASE CellUnchanged(t)
    <3> DEFINE x == [my[t].seen EXCEPT !.idx = NextRound(t)]
    <3>1. x \in CellType /\ x.idx = my[t].index + RingSize
      BY <1>a, <1>c, <1>d DEF CellType, NextRound
    <3>2. SetCell(t, x) /\ UNCHANGED <<head, tail, my>> /\ \E l \in DequeueLabel : Goto(t, l)
      BY <1>9, <2>1 DEF DequeueSkip
    <3> HIDE DEF x
    <3>3. x.idx % RingSize = my[t].index % RingSize
      BY <1>a, <3>1, SlotOf
    <3>4. my' = [my EXCEPT ![t] = my[t]]
      BY <1>0, <1>b, <3>2
    <3> QED
      BY <1>a, <1>g, <3>1, <3>2, <3>3, <3>4
  <2>2. CASE ~CellUnchanged(t)
    BY <1>9, <1>b, <1>f, <2>2 DEF DequeueSkip
  <2> QED
    BY <2>1, <2>2
<1>10. ASSUME DequeueClose(t) PROVE AllTypes'
  <2>1. EndsBecome(my[t].rq, Ring(t).head, Ring(t).tail)
    BY <1>0, <1>10, <1>a, EndsAre DEF DequeueClose, Ring
  <2>2. Ring(t).head \in Nat /\ Ring(t).tail \in Nat
    BY <1>a DEF RingType
  <2>3. my' = [my EXCEPT ![t] = my[t]]
    BY <1>0, <1>10, <1>b DEF DequeueClose
  <2> QED
    BY <1>10, <1>a, <1>h, <2>1, <2>2, <2>3 DEF DequeueClose
<1>11. ASSUME FixTail(t) PROVE AllTypes'
  <2> DEFINE m == [my[t] EXCEPT !.tt = TailOf(t)]
  <2>1. m \in LocalType /\ m.rq = my[t].rq
    BY <1>a DEF LocalType
  <2>2. my' = [my EXCEPT ![t] = m]
    BY <1>0, <1>11, <1>b DEF FixTail
  <2> HIDE DEF m
  <2> QED
    BY <1>11, <1>a, <1>b, <1>e, <2>1, <2>2 DEF FixTail, shared
<1>12. ASSUME FixHead(t) PROVE AllTypes'
  <2> DEFINE m == [my[t] EXCEPT !.h = Ring(t).head]
  <2>1. m \in LocalType /\ m.rq = my[t].rq
    BY <1>a DEF LocalType, RingType
  <2>2. my' = [my EXCEPT ![t] = m]
    BY <1>0, <1>12, <1>b DEF FixHead
  <2> HIDE DEF m
  <2> QED
    BY <1>12, <1>a, <1>b, <1>e, <2>1, <2>2 DEF FixHead, shared
<1>13. ASSUME FixCas(t) PROVE AllTypes'
  <2>1. CASE UNCHANGED rings
    <3>1. \E l \in DequeueLabel : Goto(t, l)
      BY <1>13 DEF FixCas
    <3> QED
      BY <1>13, <1>b, <1>f, <2>1, <3>1 DEF FixCas
  <2>2. CASE rings' = [rings EXCEPT ![my[t].rq].tail = my[t].h] /\ Goto(t, "deq_next")
    <3>1. EndsBecome(my[t].rq, Ring(t).head, my[t].h)
      BY <1>0, <1>a, <1>c, <2>2, EndsAre DEF Ring
    <3>2. Ring(t).head \in Nat
      BY <1>a DEF RingType
    <3>3. my' = [my EXCEPT ![t] = my[t]]
      BY <1>0, <1>13, <1>b DEF FixCas
    <3>4. UNCHANGED <<head, tail>>
      BY <1>13 DEF FixCas
    <3> QED
      BY <1>a, <1>c, <1>h, <2>2, <3>1, <3>2, <3>3, <3>4
  <2> QED
    BY <1>13, <2>1, <2>2 DEF FixCas
<1>14. ASSUME DequeueSwing(t) PROVE AllTypes'
  <2>1. head' \in 1..Len(rings)
    BY <1>0, <1>14, <1>a, <1>b, <1>c DEF DequeueSwing, DequeuerOK
  <2> QED
    BY <1>14, <1>f, <2>1 DEF DequeueSwing
<1> QED
  BY <1>1, <1>2, <1>3, <1>4, <1>5, <1>6, <1>7, <1>8, <1>9, <1>10, <1>11, <1>12, <1>13, <1>14 DEF Dequeuing

(* Types are kept. *)
LEMMA StepTypes == LCRQInv /\ [Next]_vars => AllTypes'
<1> SUFFICES ASSUME LCRQInv, [Next]_vars PROVE AllTypes'
  OBVIOUS
<1>1. CASE UNCHANGED vars
  BY <1>1 DEF vars, shared, history, LCRQInv, AllTypes
<1>2. CASE Next
  BY <1>2, EnqueueTyped, DequeueTyped DEF Next, EnqueueStep, DequeueStep, Dequeuing
<1> QED
  BY <1>1, <1>2

-----------------------------------------------------------------------------
(* What a step does to the rings *)

Drawing(t) == pc[t] = "enq_draw" /\ EndsBecome(my[t].rq, Ring(t).head, Ring(t).tail + 1)
Reaching(t) == pc[t] = "deq_draw" /\ EndsBecome(my[t].rq, Ring(t).head + 1, Ring(t).tail)
Closing(t) == pc[t] \in {"enq_close", "deq_close"} /\ EndsBecome(my[t].rq, Ring(t).head, Ring(t).tail)
Fixed(t) == /\ pc[t] = "fix_cas"
            /\ \E n \in Nat : n >= Ring(t).tail /\ EndsBecome(my[t].rq, Ring(t).head, n)
Linking(t) == /\ pc[t] = "enq_link" /\ pc'[t] = "enq_swing" /\ IsLast(my[t].rq)
              /\ arg[t] \in Value /\ RingLinked(NewRing(arg[t]))

(* the four compare-and-swaps of a cell, and what the thread knows of it *)
NewCell(t) == rings'[my[t].rq].cell[my[t].index % RingSize]
CellGets(t, i, v) ==
  /\ \E x \in CellType : CellBecomes(my[t].rq, my[t].index % RingSize, x)
  /\ NewCell(t).idx = i /\ NewCell(t).val = v
Filling(t) == /\ pc[t] = "enq_cas" /\ pc'[t] = "idle" /\ arg[t] \in Value
              /\ Cell(t) = my[t].seen /\ Cell(t).idx <= my[t].index /\ Cell(t).val = EMPTY
              /\ CellGets(t, my[t].index, arg[t]) /\ ~NewCell(t).unsafe
Taking(t) == /\ pc[t] = "deq_take" /\ pc'[t] = "got" /\ my'[t].seen.val = Cell(t).val
             /\ Cell(t).idx = my[t].index /\ Cell(t).val # EMPTY
             /\ CellGets(t, my[t].index + RingSize, EMPTY) /\ NewCell(t).unsafe = Cell(t).unsafe
Marking(t) == /\ pc[t] = "deq_mark" /\ pc'[t] = "deq_test" /\ UNCHANGED my
              /\ Cell(t).idx < my[t].index /\ Cell(t).val # EMPTY
              /\ CellGets(t, Cell(t).idx, Cell(t).val) /\ NewCell(t).unsafe
Skipping(t) == /\ pc[t] = "deq_skip" /\ pc'[t] \in {"deq_close", "deq_test"} /\ UNCHANGED my
               /\ Cell(t).idx <= my[t].index /\ Cell(t).val = EMPTY
               /\ CellGets(t, my[t].index + RingSize, EMPTY) /\ NewCell(t).unsafe = Cell(t).unsafe

(* All that can happen to the rings. *)
RingStep(t) ==
  \/ UNCHANGED rings
  \/ t \in Enqueuer /\ (Drawing(t) \/ Closing(t) \/ Filling(t) \/ Linking(t))
  \/ t \in Dequeuer /\ (Reaching(t) \/ Closing(t) \/ Fixed(t) \/ Taking(t) \/ Marking(t) \/ Skipping(t))

(* The other threads stay where they are. *)
OnlyMe(t) ==
  /\ \A u \in Thread \ {t} : pc'[u] = pc[u] /\ my'[u] = my[u]
  /\ \A u \in Enqueuer \ {t} : arg'[u] = arg[u]

(* The compare-and-swaps of enqueue, that succeed or lead to the next try. *)
LEMMA FillAndLink ==
  ASSUME LCRQInv, NEW t \in Enqueuer
  PROVE  /\ EnqueueCas(t) => Filling(t) \/ (UNCHANGED <<rings, arg, history>> /\ pc'[t] = "enq_full")
         /\ EnqueueLink(t) => Linking(t) \/ (UNCHANGED <<rings, arg, history>> /\ pc'[t] = "enq_tail")
<1>0. t \in Thread /\ t \notin Dequeuer /\ AllTypes /\ EnqueuerOK(t)
  BY LCRQAssumption DEF Thread, LCRQInv
<1>a. /\ my[t].rq \in 1..Len(rings) /\ my[t].index \in Nat /\ my[t].index % RingSize \in Slot
      /\ Ring(t) \in RingType /\ Cell(t) \in CellType /\ arg[t] \in Value \cup {EMPTY}
      /\ pc \in [Thread -> EnqueueLabel \cup DequeueLabel \cup {"idle", "got"}]
  BY <1>0, LocalsTyped DEF AllTypes
<1>2. ASSUME EnqueueCas(t) PROVE Filling(t) \/ (UNCHANGED <<rings, arg, history>> /\ pc'[t] = "enq_full")
  <2>1. CASE CellUnchanged(t)
    <3> DEFINE x == [idx |-> my[t].index, unsafe |-> FALSE, val |-> arg[t]]
    <3>1. x \in CellType /\ x.idx = my[t].index /\ x.unsafe = FALSE /\ x.val = arg[t]
      BY <1>a DEF CellType
    <3>2. SetCell(t, x) /\ EnqueueReturn(t) /\ pc[t] = "enq_cas"
      BY <1>2, <2>1 DEF EnqueueCas
    <3> HIDE DEF x
    <3>3. CellBecomes(my[t].rq, my[t].index % RingSize, x)
      BY <1>0, <3>1, <3>2, SetCellIs
    <3>4. CellGets(t, my[t].index, arg[t]) /\ ~NewCell(t).unsafe
      BY <1>a, <3>1, <3>3 DEF CellGets, NewCell, CellBecomes
    <3>5. arg[t] \in Value /\ Cell(t) = my[t].seen /\ Cell(t).idx <= my[t].index /\ Cell(t).val = EMPTY
      BY <1>0, <1>a, <2>1, <3>2 DEF EnqueuerOK, CellUnchanged
    <3>6. pc'[t] = "idle"
      BY <1>0, <1>a, <3>2 DEF EnqueueReturn, Goto
    <3> QED
      BY <3>2, <3>4, <3>5, <3>6 DEF Filling
  <2>2. CASE ~CellUnchanged(t)
    BY <1>0, <1>a, <1>2, <2>2 DEF EnqueueCas, EnqueueGoes, Goto
  <2> QED
    BY <2>1, <2>2
<1>3. ASSUME EnqueueLink(t) PROVE Linking(t) \/ (UNCHANGED <<rings, arg, history>> /\ pc'[t] = "enq_tail")
  <2>1. CASE IsLast(my[t].rq)
    <3>1. arg[t] \in Value /\ pc[t] = "enq_link"
      BY <1>0, <1>3, <1>a DEF EnqueueLink, EnqueuerOK
    <3>2. RingLinked(NewRing(arg[t]))
      BY <1>0, <1>3, <2>1, <3>1, LinkIs DEF EnqueueLink
    <3>3. pc'[t] = "enq_swing"
      BY <1>0, <1>3, <1>a, <2>1 DEF EnqueueLink, EnqueueGoes, Goto
    <3> QED
      BY <2>1, <3>1, <3>2, <3>3 DEF Linking
  <2>2. CASE ~IsLast(my[t].rq)
    BY <1>0, <1>a, <1>3, <2>2 DEF EnqueueLink, EnqueueGoes, Goto
  <2> QED
    BY <2>1, <2>2
<1> QED
  BY <1>2, <1>3

LEMMA EnqueueRingStep ==
  ASSUME LCRQInv, NEW t \in Enqueuer, Enqueuing(t) \/ \E v \in Value : EnqueueCall(t, v)
  PROVE  RingStep(t)
<1>0. t \in Thread /\ t \notin Dequeuer /\ AllTypes /\ EnqueuerOK(t)
  BY LCRQAssumption DEF Thread, LCRQInv
<1>a. /\ my[t].rq \in 1..Len(rings) /\ my[t].index \in Nat /\ my[t].index % RingSize \in Slot
      /\ Ring(t) \in RingType /\ Cell(t) \in CellType /\ arg[t] \in Value \cup {EMPTY}
      /\ pc \in [Thread -> EnqueueLabel \cup DequeueLabel \cup {"idle", "got"}]
  BY <1>0, LocalsTyped DEF AllTypes
<1>1. ASSUME EnqueueDraw(t) PROVE Drawing(t)
  BY <1>0, <1>1, <1>a, EndsAre DEF EnqueueDraw, Ring, Drawing
<1>3. ASSUME EnqueueClose(t) PROVE UNCHANGED rings \/ Closing(t)
  BY <1>0, <1>3, <1>a, EndsAre DEF EnqueueClose, Ring, Closing
<1>5. ASSUME \/ EnqueueTail(t) \/ EnqueueNext(t) \/ EnqueueHelp(t) \/ EnqueueIdx(t) \/ EnqueueVal(t)
             \/ EnqueueHead(t) \/ EnqueueFull(t) \/ EnqueueSwing(t) \/ \E v \in Value : EnqueueCall(t, v)
      PROVE  UNCHANGED rings
  BY <1>5 DEF EnqueueTail, EnqueueNext, EnqueueHelp, EnqueueIdx, EnqueueVal, EnqueueHead, EnqueueFull,
              EnqueueSwing, EnqueueCall, shared
<1> QED
  BY <1>1, <1>3, <1>5, FillAndLink DEF Enqueuing, RingStep

(* The compare-and-swaps of dequeue, that succeed or make it look again. *)
LEMMA CellSteps ==
  ASSUME LCRQInv, NEW t \in Dequeuer
  PROVE  /\ DequeueTake(t) => Taking(t) \/ (UNCHANGED rings /\ pc'[t] = "deq_idx")
         /\ DequeueMark(t) => Marking(t) \/ (UNCHANGED rings /\ pc'[t] = "deq_idx")
         /\ DequeueSkip(t) => Skipping(t) \/ (UNCHANGED rings /\ pc'[t] = "deq_idx")
<1>0. t \in Thread /\ AllTypes /\ DequeuerOK(t)
  BY DEF Thread, LCRQInv
<1>a. /\ my[t].rq \in 1..Len(rings) /\ my[t].index \in Nat /\ my[t].index % RingSize \in Slot
      /\ Ring(t) \in RingType /\ Cell(t) \in CellType /\ my[t] \in LocalType
      /\ pc \in [Thread -> EnqueueLabel \cup DequeueLabel \cup {"idle", "got"}]
      /\ my \in [Thread -> LocalType]
  BY <1>0, LocalsTyped DEF AllTypes
<1>b. RingSize \in Nat \ {0} /\ my[t].index + RingSize \in Nat
  BY <1>a, LCRQAssumption
<1>c. my[t].seen \in CellType
  BY <1>a DEF LocalType
<1>d. ASSUME NEW x \in CellType, SetCell(t, x) PROVE CellGets(t, x.idx, x.val) /\ NewCell(t).unsafe = x.unsafe
  <2>1. CellBecomes(my[t].rq, my[t].index % RingSize, x)
    BY <1>0, <1>d, SetCellIs
  <2> QED
    BY <1>a, <1>d, <2>1 DEF CellGets, NewCell, CellBecomes
<1>2. ASSUME DequeueTake(t) PROVE Taking(t) \/ (UNCHANGED rings /\ pc'[t] = "deq_idx")
  <2>1. CASE CellUnchanged(t)
    <3> DEFINE x == [my[t].seen EXCEPT !.idx = NextRound(t), !.val = EMPTY]
    <3>1. x \in CellType /\ x.idx = my[t].index + RingSize /\ x.unsafe = my[t].seen.unsafe /\ x.val = EMPTY
      BY <1>b, <1>c DEF CellType, NextRound
    <3>2. SetCell(t, x) /\ Goto(t, "got") /\ pc[t] = "deq_take"
          /\ my' = [my EXCEPT ![t] = [NoLocals EXCEPT !.seen.val = my[t].seen.val]]
      BY <1>2, <2>1 DEF DequeueTake
    <3> HIDE DEF x
    <3>3. CellGets(t, my[t].index + RingSize, EMPTY) /\ NewCell(t).unsafe = my[t].seen.unsafe
      BY <1>d, <3>1, <3>2
    <3>4. Cell(t) = my[t].seen /\ Cell(t).idx = my[t].index /\ Cell(t).val # EMPTY
      BY <1>0, <2>1, <3>2 DEF DequeuerOK, CellUnchanged
    <3>5. pc'[t] = "got"
      BY <1>0, <1>a, <3>2 DEF Goto
    <3>6. my'[t].seen.val = my[t].seen.val
      BY <1>0, <1>a, <3>2 DEF NoLocals, NoCell
    <3> QED
      BY <3>2, <3>3, <3>4, <3>5, <3>6 DEF Taking
  <2>2. CASE ~CellUnchanged(t)
    BY <1>0, <1>2, <1>a, <2>2 DEF DequeueTake, Goto
  <2> QED
    BY <2>1, <2>2
<1>3. ASSUME DequeueMark(t) PROVE Marking(t) \/ (UNCHANGED rings /\ pc'[t] = "deq_idx")
  <2>1. CASE CellUnchanged(t)
    <3> DEFINE x == [my[t].seen EXCEPT !.unsafe = TRUE]
    <3>1. x \in CellType /\ x.idx = my[t].seen.idx /\ x.unsafe = TRUE /\ x.val = my[t].seen.val
      BY <1>c DEF CellType
    <3>2. SetCell(t, x) /\ Goto(t, "deq_test") /\ pc[t] = "deq_mark" /\ UNCHANGED my
      BY <1>3, <2>1 DEF DequeueMark
    <3> HIDE DEF x
    <3>3. CellGets(t, my[t].seen.idx, my[t].seen.val) /\ NewCell(t).unsafe
      BY <1>d, <3>1, <3>2
    <3>4. Cell(t) = my[t].seen /\ Cell(t).idx < my[t].index /\ Cell(t).val # EMPTY
      BY <1>0, <2>1, <3>2 DEF DequeuerOK, CellUnchanged
    <3>5. pc'[t] = "deq_test"
      BY <1>0, <1>a, <3>2 DEF Goto
    <3> QED
      BY <3>2, <3>3, <3>4, <3>5 DEF Marking
  <2>2. CASE ~CellUnchanged(t)
    BY <1>0, <1>3, <1>a, <2>2 DEF DequeueMark, Goto
  <2> QED
    BY <2>1, <2>2
<1>4. ASSUME DequeueSkip(t) PROVE Skipping(t) \/ (UNCHANGED rings /\ pc'[t] = "deq_idx")
  <2>1. CASE CellUnchanged(t)
    <3> DEFINE x == [my[t].seen EXCEPT !.idx = NextRound(t)]
    <3>1. x \in CellType /\ x.idx = my[t].index + RingSize /\ x.unsafe = my[t].seen.unsafe
          /\ x.val = my[t].seen.val
      BY <1>b, <1>c DEF CellType, NextRound
    <3>2. /\ SetCell(t, x) /\ pc[t] = "deq_skip" /\ UNCHANGED my
          /\ \E l \in {"deq_close", "deq_test"} : Goto(t, l)
      BY <1>4, <2>1 DEF DequeueSkip
    <3> HIDE DEF x
    <3>3. CellGets(t, my[t].index + RingSize, my[t].seen.val)
          /\ NewCell(t).unsafe = my[t].seen.unsafe
      BY <1>d, <3>1, <3>2
    <3>4. Cell(t) = my[t].seen /\ Cell(t).idx <= my[t].index /\ Cell(t).val = EMPTY
      BY <1>0, <2>1, <3>2 DEF DequeuerOK, CellUnchanged
    <3>5. pc'[t] \in {"deq_close", "deq_test"}
      BY <1>0, <1>a, <3>2 DEF Goto
    <3> QED
      BY <3>2, <3>3, <3>4, <3>5 DEF Skipping
  <2>2. CASE ~CellUnchanged(t)
    BY <1>0, <1>4, <1>a, <2>2 DEF DequeueSkip, Goto
  <2> QED
    BY <2>1, <2>2
<1> QED
  BY <1>2, <1>3, <1>4

LEMMA DequeueRingStep ==
  ASSUME LCRQInv, NEW t \in Dequeuer, Dequeuing(t) \/ DequeueCall(t)
  PROVE  RingStep(t)
<1>0. t \in Thread /\ AllTypes /\ DequeuerOK(t)
  BY DEF Thread, LCRQInv
<1>a. /\ my[t].rq \in 1..Len(rings) /\ my[t].index \in Nat /\ my[t].index % RingSize \in Slot
      /\ Ring(t) \in RingType /\ Cell(t) \in CellType /\ my[t] \in LocalType
      /\ pc \in [Thread -> EnqueueLabel \cup DequeueLabel \cup {"idle", "got"}]
      /\ my \in [Thread -> LocalType]
  BY <1>0, LocalsTyped DEF AllTypes
<1>1. ASSUME DequeueDraw(t) PROVE Reaching(t)
  BY <1>0, <1>1, <1>a, EndsAre DEF DequeueDraw, Ring, Reaching
<1>5. ASSUME DequeueClose(t) PROVE Closing(t)
  BY <1>0, <1>5, <1>a, EndsAre DEF DequeueClose, Ring, Closing
<1>6. ASSUME FixCas(t) PROVE UNCHANGED rings \/ Fixed(t)
  <2>1. CASE TailOf(t) = my[t].tt /\ Overrun(t)
    <3>1. rings' = [rings EXCEPT ![my[t].rq].tail = my[t].h] /\ pc[t] = "fix_cas"
      BY <1>6, <2>1 DEF FixCas
    <3>2. my[t].h \in Nat /\ my[t].h >= Ring(t).tail
      BY <1>a, <2>1 DEF LocalType, TailOf, Overrun, RingType
    <3>3. EndsBecome(my[t].rq, Ring(t).head, my[t].h)
      BY <1>0, <1>a, <3>1, <3>2, EndsAre DEF Ring
    <3> QED
      BY <3>1, <3>2, <3>3 DEF Fixed
  <2>2. CASE ~(TailOf(t) = my[t].tt /\ Overrun(t))
    BY <1>6, <2>2 DEF FixCas
  <2> QED
    BY <2>1, <2>2
<1>7. ASSUME \/ DequeueHead(t) \/ DequeueIdx(t) \/ DequeueVal(t) \/ DequeueLook(t) \/ DequeueTest(t)
             \/ FixTail(t) \/ FixHead(t) \/ DequeueNext(t) \/ DequeueAgain(t) \/ DequeueSwing(t)
             \/ DequeueReturn(t) \/ DequeueCall(t)
      PROVE  UNCHANGED rings
  BY <1>7 DEF DequeueHead, DequeueIdx, DequeueVal, DequeueLook, DequeueTest, FixTail, FixHead, DequeueNext,
              DequeueAgain, DequeueSwing, DequeueReturn, DequeueCall, shared
<1> QED
  BY <1>1, <1>5, <1>6, <1>7, CellSteps DEF Dequeuing, RingStep

(* Each step is the step of one thread. *)
LEMMA EnqueueOnlyMe ==
  ASSUME LCRQInv, NEW t \in Enqueuer, Enqueuing(t) \/ \E v \in Value : EnqueueCall(t, v)
  PROVE  OnlyMe(t)
<1>1. my \in [Thread -> LocalType] /\ arg \in [Enqueuer -> Value \cup {EMPTY}]
      /\ pc \in [Thread -> EnqueueLabel \cup DequeueLabel \cup {"idle", "got"}]
  BY DEF LCRQInv, AllTypes
<1> QED
  BY <1>1 DEF OnlyMe, Enqueuing, EnqueueCall, EnqueueTail, EnqueueNext, EnqueueHelp, EnqueueDraw, EnqueueIdx,
              EnqueueVal, EnqueueHead, EnqueueCas, EnqueueFull, EnqueueClose, EnqueueLink, EnqueueSwing,
              EnqueueReturn, EnqueueGoes, Goto, KeepTries, ReadIdx, ReadVal
LEMMA DequeueOnlyMe ==
  ASSUME LCRQInv, NEW t \in Dequeuer, Dequeuing(t) \/ DequeueCall(t), UNCHANGED arg
  PROVE  OnlyMe(t)
<1>1. my \in [Thread -> LocalType]
      /\ pc \in [Thread -> EnqueueLabel \cup DequeueLabel \cup {"idle", "got"}]
  BY DEF LCRQInv, AllTypes
<1>2. ASSUME DequeueVal(t) \/ DequeueLook(t)
      PROVE  \A u \in Thread \ {t} : pc'[u] = pc[u] /\ my'[u] = my[u]
  BY <1>1, <1>2 DEF DequeueVal, DequeueLook, SkipOrWait, Goto, ReadVal
<1>3. ASSUME ~(DequeueVal(t) \/ DequeueLook(t))
      PROVE  \A u \in Thread \ {t} : pc'[u] = pc[u] /\ my'[u] = my[u]
  BY <1>1, <1>3 DEF Dequeuing, DequeueCall, DequeueHead, DequeueDraw, DequeueIdx, DequeueTake,
              DequeueMark, DequeueSkip, DequeueClose, DequeueTest, FixTail, FixHead, FixCas, DequeueNext,
              DequeueAgain, DequeueSwing, DequeueReturn, Goto, KeepIndex, ReadIdx
<1> QED
  BY <1>2, <1>3 DEF OnlyMe

-----------------------------------------------------------------------------
(* Rings only grow *)

Grown ==
  /\ rings' \in Seq(RingType) /\ Len(rings) <= Len(rings')
  /\ \A r \in 1..Len(rings) :
       /\ rings[r].head <= rings'[r].head /\ rings[r].tail <= rings'[r].tail
       /\ rings[r].closed => rings'[r].closed
       /\ \A c \in Slot : rings[r].cell[c].idx <= rings'[r].cell[c].idx

(* What is in a cell was there before, under the same index, or is filled in. *)
Kept(r, c) ==
  rings'[r].cell[c].val # EMPTY =>
    rings'[r].cell[c].val = rings[r].cell[c].val /\ rings'[r].cell[c].idx = rings[r].cell[c].idx

LEMMA RingFacts ==
  ASSUME AllTypes, NEW r \in 1..Len(rings)
  PROVE  /\ rings[r].head \in Nat /\ rings[r].tail \in Nat /\ rings[r].closed \in BOOLEAN
         /\ \A c \in Slot : rings[r].cell[c] \in CellType /\ rings[r].cell[c].idx \in Nat
                            /\ rings[r].cell[c].unsafe \in BOOLEAN /\ rings[r].cell[c].val \in Value \cup {EMPTY}
         /\ Len(rings) \in Nat /\ r \in Nat
<1>1. rings[r] \in RingType /\ Len(rings) \in Nat
  BY DEF AllTypes
<1> QED
  BY <1>1 DEF RingType, CellType

(* the step on one cell, in the form that is used *)
LEMMA CellGetsIs ==
  ASSUME AllTypes, NEW t \in Thread, NEW i, NEW v, CellGets(t, i, v)
  PROVE  /\ rings' \in Seq(RingType) /\ Len(rings') = Len(rings)
         /\ \A r \in 1..Len(rings) :
              /\ rings'[r].head = rings[r].head /\ rings'[r].tail = rings[r].tail
              /\ rings'[r].closed = rings[r].closed
              /\ \A c \in Slot : ~(r = my[t].rq /\ c = my[t].index % RingSize) =>
                                   rings'[r].cell[c] = rings[r].cell[c]
         /\ NewCell(t) \in CellType /\ NewCell(t).idx = i /\ NewCell(t).val = v
         /\ my[t].rq \in 1..Len(rings) /\ my[t].index % RingSize \in Slot
         /\ my[t].rq \in Nat /\ my[t].index \in Nat
<1>1. my[t].rq \in 1..Len(rings) /\ my[t].index % RingSize \in Slot /\ my[t].index \in Nat /\ my[t].rq \in Nat
  BY LocalsTyped
<1> QED
  BY <1>1 DEF CellGets, CellBecomes, NewCell

LEMMA RingsGrow ==
  ASSUME AllTypes, NEW t \in Thread, RingStep(t)
  PROVE  /\ Grown
         /\ \A r \in 1..Len(rings), c \in Slot :
              Kept(r, c) \/ (Filling(t) /\ t \in Enqueuer /\ r = my[t].rq /\ c = my[t].index % RingSize)
<1> DEFINE q == my[t].rq
           e == my[t].index % RingSize
<1>0. q \in 1..Len(rings) /\ e \in Slot /\ my[t].index \in Nat /\ RingSize \in Nat /\ Len(rings) \in Nat
      /\ rings \in Seq(RingType)
  BY LocalsTyped, LCRQAssumption DEF AllTypes
<1>1. CASE UNCHANGED rings
  <2>1. Grown
    BY <1>1, RingFacts DEF Grown, AllTypes
  <2> QED
    BY <1>1, <2>1 DEF Kept
<1>2. ASSUME NEW h \in Nat, NEW n \in Nat, EndsBecome(q, h, n), h >= Ring(t).head, n >= Ring(t).tail
      PROVE  Grown /\ \A r \in 1..Len(rings), c \in Slot : Kept(r, c)
  <2>1. ASSUME NEW r \in 1..Len(rings)
        PROVE  /\ rings[r].head <= rings'[r].head /\ rings[r].tail <= rings'[r].tail
               /\ rings[r].closed => rings'[r].closed
               /\ \A c \in Slot : rings[r].cell[c].idx <= rings'[r].cell[c].idx
    <3>1. /\ rings'[r].cell = rings[r].cell
          /\ rings'[r].head = IF r = q THEN h ELSE rings[r].head
          /\ rings'[r].tail = IF r = q THEN n ELSE rings[r].tail
          /\ rings[r].closed => rings'[r].closed
      BY <1>2 DEF EndsBecome
    <3>2. Ring(t) = rings[q]
      BY DEF Ring
    <3>3. \A c \in Slot : rings[r].cell[c].idx <= rings'[r].cell[c].idx
      BY <3>1, RingFacts
    <3>4. rings[r].head \in Nat /\ rings[r].tail \in Nat
      BY RingFacts
    <3> HIDE DEF q
    <3> QED
      BY <1>2, <3>1, <3>2, <3>3, <3>4
  <2>3. Grown
    BY <1>0, <1>2, <2>1 DEF Grown, EndsBecome
  <2>2. \A r \in 1..Len(rings), c \in Slot : Kept(r, c)
    BY <1>2 DEF Kept, EndsBecome
  <2> QED
    BY <2>2, <2>3
<1>3. /\ Ring(t).head \in Nat /\ Ring(t).tail \in Nat
      /\ Ring(t).head + 1 \in Nat /\ Ring(t).tail + 1 \in Nat
  <2>1. Ring(t).head \in Nat /\ Ring(t).tail \in Nat
    BY <1>0, RingFacts DEF Ring
  <2> QED
    BY <2>1
<1>4. CASE Drawing(t) \/ Reaching(t) \/ Closing(t) \/ Fixed(t)
  <2>1. PICK h \in Nat, n \in Nat : EndsBecome(q, h, n) /\ h >= Ring(t).head /\ n >= Ring(t).tail
    <3>1. CASE Drawing(t)
      BY <1>3, <3>1 DEF Drawing
    <3>2. CASE Reaching(t)
      BY <1>3, <3>2 DEF Reaching
    <3>3. CASE Closing(t)
      BY <1>3, <3>3 DEF Closing
    <3>4. CASE Fixed(t)
      BY <1>3, <3>4 DEF Fixed
    <3> QED
      BY <1>4, <3>1, <3>2, <3>3, <3>4
  <2> HIDE DEF q, e
  <2> QED
    BY <1>2, <2>1
<1>5. CASE Linking(t)
  <2>1. /\ rings' \in Seq(RingType) /\ Len(rings') = Len(rings) + 1
        /\ \A r \in 1..Len(rings) : rings'[r] = rings[r]
    BY <1>5 DEF Linking, RingLinked
  <2>2. Grown
    BY <1>0, <2>1, RingFacts DEF Grown
  <2> QED
    BY <2>1, <2>2 DEF Kept
<1>6. ASSUME NEW i, NEW v, CellGets(t, i, v), i >= Cell(t).idx
      PROVE  /\ Grown
             /\ \A r \in 1..Len(rings), c \in Slot : ~(r = q /\ c = e) => Kept(r, c)
             /\ v = EMPTY \/ (v = Cell(t).val /\ i = Cell(t).idx) => Kept(q, e)
  <2>1. /\ rings' \in Seq(RingType) /\ Len(rings') = Len(rings)
        /\ \A r \in 1..Len(rings) :
              /\ rings'[r].head = rings[r].head /\ rings'[r].tail = rings[r].tail
              /\ rings'[r].closed = rings[r].closed
              /\ \A c \in Slot : ~(r = q /\ c = e) => rings'[r].cell[c] = rings[r].cell[c]
        /\ rings'[q].cell[e].idx = i /\ rings'[q].cell[e].val = v
    BY <1>6, CellGetsIs DEF NewCell
  <2>2. Cell(t) = rings[q].cell[e]
    BY DEF Cell, Ring
  <2> HIDE DEF q, e
  <2>3. Grown
    <3>1. ASSUME NEW r \in 1..Len(rings), NEW c \in Slot PROVE rings[r].cell[c].idx <= rings'[r].cell[c].idx
      <4>1. rings[r].cell[c].idx \in Nat
        BY <1>0, RingFacts
      <4>2. CASE r = q /\ c = e
        BY <1>6, <2>1, <2>2, <4>2
      <4>3. CASE ~(r = q /\ c = e)
        BY <2>1, <4>1, <4>3
      <4> QED
        BY <4>2, <4>3
    <3>2. ASSUME NEW r \in 1..Len(rings)
          PROVE  /\ rings[r].head <= rings'[r].head /\ rings[r].tail <= rings'[r].tail
                 /\ rings[r].closed => rings'[r].closed
      BY <1>0, <2>1, RingFacts
    <3>3. Len(rings) <= Len(rings')
      BY <1>0, <2>1 DEF AllTypes
    <3> QED
      BY <2>1, <3>1, <3>2, <3>3 DEF Grown
  <2> QED
    BY <2>1, <2>2, <2>3 DEF Kept
<1>7. Cell(t).idx \in Nat
  BY <1>0, RingFacts DEF Cell, Ring
<1>8. CASE Filling(t) /\ t \in Enqueuer
  <2>1. CellGets(t, my[t].index, arg[t]) /\ my[t].index >= Cell(t).idx
    BY <1>0, <1>7, <1>8 DEF Filling
  <2> HIDE DEF q, e
  <2>2. Grown /\ \A r \in 1..Len(rings), c \in Slot : ~(r = q /\ c = e) => Kept(r, c)
    BY <1>6, <2>1
  <2> QED
    BY <1>8, <2>2 DEF q, e
<1>9. CASE Taking(t) \/ Marking(t) \/ Skipping(t)
  <2>1. my[t].index + RingSize >= my[t].index
    BY <1>0
  <2> HIDE DEF q, e
  <2>2. \E i, v : /\ CellGets(t, i, v) /\ i >= Cell(t).idx
                  /\ v = EMPTY \/ (v = Cell(t).val /\ i = Cell(t).idx)
    <3>1. CASE Taking(t)
      BY <1>0, <3>1 DEF Taking
    <3>2. CASE Marking(t)
      <4>1. CellGets(t, Cell(t).idx, Cell(t).val) /\ Cell(t).idx >= Cell(t).idx
        <5>1. CellGets(t, Cell(t).idx, Cell(t).val)
          BY <3>2 DEF Marking
        <5> QED
          BY <1>7, <5>1
      <4> QED
        BY <4>1
    <3>3. CASE Skipping(t)
      BY <1>0, <1>7, <3>3 DEF Skipping
    <3> QED
      BY <1>9, <3>1, <3>2, <3>3
  <2> QED
    BY <1>6, <2>2
<1> QED
  BY <1>1, <1>4, <1>5, <1>8, <1>9 DEF RingStep

-----------------------------------------------------------------------------
(* What the threads know stays true *)

(* The effect of a step of thread t, in the words of the last sections. *)
Effect(t) ==
  /\ AllTypes' /\ RingStep(t) /\ OnlyMe(t) /\ head <= head' /\ Grown
  /\ \A r \in 1..Len(rings), c \in Slot :
       Kept(r, c) \/ (Filling(t) /\ t \in Enqueuer /\ r = my[t].rq /\ c = my[t].index % RingSize)

LEMMA HeadGrows ==
  ASSUME LCRQInv, NEW t \in Thread, Enqueuing(t) \/ Dequeuing(t)
  PROVE  head <= head' /\ (pc[t] # "deq_swing" => head' = head)
<1>1. head \in Nat
  BY DEF LCRQInv, AllTypes
<1>2. CASE DequeueSwing(t)
  BY <1>1, <1>2 DEF DequeueSwing, LCRQInv, AllTypes, LocalType
<1>3. CASE ~DequeueSwing(t)
  <2>1. head' = head
    BY <1>3 DEF Enqueuing, EnqueueTail, EnqueueNext, EnqueueHelp, EnqueueDraw, EnqueueIdx,
              EnqueueVal, EnqueueHead, EnqueueCas, EnqueueFull, EnqueueClose, EnqueueLink, EnqueueSwing,
              Dequeuing, DequeueHead, DequeueDraw, DequeueIdx, DequeueVal, DequeueLook, DequeueTake,
              DequeueMark, DequeueSkip, DequeueClose, DequeueTest, FixTail, FixHead, FixCas, DequeueNext,
              DequeueAgain, DequeueReturn, shared
  <2> QED
    BY <1>1, <2>1
<1> QED
  BY <1>2, <1>3

LEMMA EnqueueEffect ==
  ASSUME LCRQInv, NEW t \in Enqueuer, Remember, Enqueuing(t) \/ \E v \in Value : EnqueueCall(t, v)
  PROVE  Effect(t)
<1>1. AllTypes /\ t \in Thread
  BY DEF LCRQInv, Thread
<1>2. AllTypes' /\ RingStep(t) /\ OnlyMe(t)
  BY EnqueueTyped, EnqueueRingStep, EnqueueOnlyMe
<1>3. head <= head'
  <2>1. CASE Enqueuing(t)
    BY <1>1, <2>1, HeadGrows
  <2>2. CASE \E v \in Value : EnqueueCall(t, v)
    BY <1>1, <2>2 DEF EnqueueCall, shared, AllTypes
  <2> QED
    BY <2>1, <2>2
<1> QED
  BY <1>1, <1>2, <1>3, RingsGrow DEF Effect

LEMMA DequeueEffect ==
  ASSUME LCRQInv, NEW t \in Dequeuer, Remember, UNCHANGED <<arg, history>>, Dequeuing(t) \/ DequeueCall(t)
  PROVE  Effect(t)
<1>1. AllTypes /\ t \in Thread
  BY DEF LCRQInv, Thread
<1>2. AllTypes' /\ RingStep(t) /\ OnlyMe(t)
  BY DequeueTyped, DequeueRingStep, DequeueOnlyMe
<1>3. head <= head'
  <2>1. CASE Dequeuing(t)
    BY <1>1, <2>1, HeadGrows
  <2>2. CASE DequeueCall(t)
    BY <1>1, <2>2 DEF DequeueCall, shared, AllTypes
  <2> QED
    BY <2>1, <2>2
<1> QED
  BY <1>1, <1>2, <1>3, RingsGrow DEF Effect

(* The last ring is the only open one, and cells hold drawn indices. *)
LEMMA StepRingsOK ==
  ASSUME LCRQInv, NEW t \in Thread, Effect(t)
  PROVE  RingsOK'
<1>1. AllTypes /\ AllTypes' /\ Grown /\ RingsOK /\ Len(rings) \in Nat /\ Len(rings') \in Nat
  BY DEF LCRQInv, Effect, AllTypes
<1>2. Len(rings') = Len(rings) \/ (Linking(t) /\ t \in Enqueuer)
  BY <1>1, CellGetsIs DEF Effect, RingStep, EndsBecome, Drawing, Reaching, Closing, Fixed, Filling, Taking, Marking,
                    Skipping
<1>3. Linking(t) => /\ Len(rings') = Len(rings) + 1 /\ rings'[Len(rings) + 1] = NewRing(arg[t])
                    /\ \A r \in 1..Len(rings) : rings'[r] = rings[r]
  BY DEF Linking, RingLinked
<1>4. \A r \in 1..Len(rings') - 1 : rings'[r].closed
  <2>1. \A r \in 1..Len(rings) - 1 : rings'[r].closed
    BY <1>1 DEF RingsOK, Grown
  <2>2. ASSUME Linking(t), t \in Enqueuer PROVE rings'[Len(rings)].closed
    <3>1. rings[Len(rings)].closed /\ Len(rings) \in 1..Len(rings)
      BY <1>1, <2>2, LocalsTyped DEF Linking, LCRQInv, EnqueuerOK, IsLast, Ring
    <3> QED
      BY <1>3, <2>2, <3>1
  <2> QED
    BY <1>1, <1>2, <1>3, <2>1, <2>2
<1>5. ASSUME NEW r \in 1..Len(rings), NEW c \in Slot, rings'[r].cell[c].val # EMPTY
      PROVE  rings'[r].cell[c].idx < rings'[r].tail
  <2>1. /\ rings[r].tail <= rings'[r].tail /\ rings[r].tail \in Nat /\ rings'[r].tail \in Nat
        /\ rings[r].cell[c].idx \in Nat
    <3>1. r \in 1..Len(rings')
      BY <1>1 DEF Grown
    <3>2. rings'[r] \in RingType
      BY <1>1, <3>1 DEF AllTypes
    <3> QED
      BY <1>1, <3>2, RingFacts DEF Grown, RingType
  <2>2. CASE Kept(r, c)
    BY <1>1, <1>5, <2>1, <2>2 DEF Kept, RingsOK
  <2>3. CASE Filling(t) /\ t \in Enqueuer /\ r = my[t].rq /\ c = my[t].index % RingSize
    <3>1. CellGets(t, my[t].index, arg[t]) /\ my[t].index < rings[r].tail /\ my[t].index \in Nat
      BY <1>1, <2>3, LocalsTyped DEF Filling, LCRQInv, EnqueuerOK, Drawn, Ring
    <3>2. rings'[r].cell[c].idx = my[t].index
      BY <2>3, <3>1 DEF CellGets, NewCell
    <3> QED
      BY <2>1, <3>1, <3>2
  <2> QED
    BY <2>2, <2>3 DEF Effect
<1>6. ASSUME NEW v, NEW c \in Slot, NewRing(v).cell[c].val # EMPTY
      PROVE  NewRing(v).cell[c].idx < NewRing(v).tail
  BY <1>6, LCRQAssumption DEF NewRing, EmptyRing, Slot
<1>7. \A r \in 1..Len(rings'), c \in Slot :
        rings'[r].cell[c].val # EMPTY => rings'[r].cell[c].idx < rings'[r].tail
  <2> HIDE DEF NewRing
  <2> QED
    BY <1>1, <1>2, <1>3, <1>5, <1>6
<1> QED
  BY <1>4, <1>7 DEF RingsOK

(* The cell, the ring and the knowledge of a thread that does not move. *)
LEMMA CellGrows ==
  ASSUME LCRQInv, NEW t \in Thread, Effect(t), NEW u \in Thread, my'[u].rq = my[u].rq, my'[u].index = my[u].index
  PROVE  /\ Ring(u).head <= Ring(u)'.head /\ Ring(u).tail <= Ring(u)'.tail
         /\ Ring(u).closed => Ring(u)'.closed
         /\ Cell(u).idx <= Cell(u)'.idx
         /\ {Ring(u).head, Ring(u).tail, Ring(u)'.head, Ring(u)'.tail, Cell(u).idx, Cell(u)'.idx} \subseteq Nat
<1>1. AllTypes /\ AllTypes' /\ Grown
  BY DEF LCRQInv, Effect
<1>2. my[u].rq \in 1..Len(rings) /\ my[u].rq \in 1..Len(rings') /\ my[u].index % RingSize \in Slot
  BY <1>1, LocalsTyped DEF Grown, AllTypes
<1>3. Ring(u)' = rings'[my[u].rq] /\ Ring(u)' \in RingType /\ Ring(u) \in RingType
      /\ Cell(u)' = rings'[my[u].rq].cell[my[u].index % RingSize]
  BY <1>1, <1>2 DEF Ring, AllTypes, Cell
<1>4. /\ {Ring(u).head, Ring(u).tail, Ring(u)'.head, Ring(u)'.tail} \subseteq Nat
      /\ Cell(u).idx \in Nat /\ Cell(u)'.idx \in Nat
  BY <1>2, <1>3 DEF RingType, Cell, Ring, CellType
<1> QED
  BY <1>1, <1>2, <1>3, <1>4 DEF Grown, Ring, Cell

LEMMA EnqueuersKnow ==
  ASSUME LCRQInv, NEW t \in Thread, Effect(t), NEW u \in Enqueuer, u # t
  PROVE  EnqueuerOK(u)'
<1>1. AllTypes /\ EnqueuerOK(u) /\ u \in Thread /\ Grown /\ Len(rings) \in Nat /\ Len(rings') \in Nat
  BY DEF LCRQInv, Thread, Effect, AllTypes
<1>2. my'[u] = my[u] /\ pc'[u] = pc[u] /\ arg'[u] = arg[u]
  BY <1>1 DEF Effect, OnlyMe
<1>3. /\ Ring(u).head <= Ring(u)'.head /\ Ring(u).tail <= Ring(u)'.tail
      /\ Ring(u).closed => Ring(u)'.closed
      /\ Cell(u).idx <= Cell(u)'.idx
      /\ {Ring(u).head, Ring(u).tail, Ring(u)'.head, Ring(u)'.tail, Cell(u).idx, Cell(u)'.idx} \subseteq Nat
  BY <1>1, <1>2, CellGrows
<1>4. /\ my[u].rq \in 1..Len(rings) /\ my[u].index \in Nat /\ my[u].index % RingSize \in Slot
      /\ my[u].seen.idx \in Nat
  BY <1>1, LocalsTyped DEF LocalType, CellType
<1>5. ASSUME Drawn(u), Cell(u)'.idx = my[u].index PROVE Cell(u)'.val = EMPTY
  <2>1. Cell(u)' = rings'[my[u].rq].cell[my[u].index % RingSize]
    BY <1>2 DEF Cell, Ring
  <2>2. CASE Kept(my[u].rq, my[u].index % RingSize)
    BY <1>1, <1>5, <2>1, <2>2 DEF Kept, EnqueuerOK, Cell, Ring
  <2>3. CASE Filling(t) /\ t \in Enqueuer /\ my[u].rq = my[t].rq /\ my[u].index % RingSize = my[t].index % RingSize
    <3>1. Cell(u)'.idx = my[t].index /\ Drawn(t)
      BY <2>1, <2>3 DEF Filling, CellGets, NewCell, Drawn
    <3> QED
      BY <1>5, <2>3, <3>1 DEF LCRQInv, DistinctOK
  <2> QED
    BY <1>4, <2>2, <2>3 DEF Effect
<1> HIDE DEF LCRQInv
<1>6. Drawn(u)' <=> Drawn(u)
  BY <1>2 DEF Drawn
<1>7. my[u].seen.idx <= Cell(u).idx => my[u].seen.idx <= Cell(u)'.idx
  BY <1>3, <1>4
<1>8. my[u].index < Ring(u).tail => my[u].index < Ring(u)'.tail
  BY <1>3, <1>4
<1>9. my[u].rq < Len(rings) => my[u].rq < Len(rings')
  BY <1>1, <1>4 DEF Grown
<1>10. /\ pc[u] \in {"enq_help", "enq_swing"} => my[u].rq < Len(rings')
       /\ pc[u] = "enq_link" => Ring(u)'.closed
       /\ pc[u] \in {"enq_val", "enq_head", "enq_cas"} => my[u].seen.idx <= Cell(u)'.idx
       /\ Drawn(u) => my[u].index < Ring(u)'.tail
  BY <1>1, <1>3, <1>7, <1>8, <1>9 DEF EnqueuerOK
<1> QED
  BY <1>1, <1>2, <1>5, <1>6, <1>10 DEF EnqueuerOK

LEMMA DequeuersKnow ==
  ASSUME LCRQInv, NEW t \in Thread, Effect(t), Remember, NEW u \in Dequeuer, u # t
  PROVE  DequeuerOK(u)'
<1>1. AllTypes /\ DequeuerOK(u) /\ u \in Thread /\ Grown /\ Len(rings) \in Nat /\ Len(rings') \in Nat
      /\ head \in Nat /\ head' \in Nat /\ head <= head'
  BY DEF LCRQInv, Thread, Effect, AllTypes
<1>2. my'[u] = my[u] /\ pc'[u] = pc[u]
  BY <1>1 DEF Effect, OnlyMe
<1>3. /\ Ring(u).head <= Ring(u)'.head
      /\ Cell(u).idx <= Cell(u)'.idx
      /\ {Ring(u).head, Ring(u).tail, Ring(u)'.head, Ring(u)'.tail, Cell(u).idx, Cell(u)'.idx} \subseteq Nat
  BY <1>1, <1>2, CellGrows
<1>4. /\ my[u].rq \in 1..Len(rings) /\ my[u].rq \in Nat /\ my[u].index \in Nat /\ my[u].seen.idx \in Nat
  BY <1>1, LocalsTyped DEF LocalType, CellType
<1>5. wasEmpty[u] /\ pc[u] \in DequeueLabel => wasEmpty'[u]
  BY <1>2 DEF Remember
<1>6. IsLast(my[u].rq)' => IsLast(my[u].rq)
  BY <1>1, <1>2, <1>4 DEF IsLast, Grown
<1>7. my[u].seen.idx <= Cell(u).idx => my[u].seen.idx <= Cell(u)'.idx
  BY <1>3, <1>4
<1>8. my[u].index < Ring(u).head => my[u].index < Ring(u)'.head
  BY <1>3, <1>4
<1>9. my[u].rq < Len(rings) => my[u].rq < Len(rings')
  BY <1>1, <1>4 DEF Grown
<1>10. my[u].rq <= head => my[u].rq <= head'
  BY <1>1, <1>4
<1>11. pc[u] \in Fixing \cup {"empty"} => pc[u] \in DequeueLabel
  BY DEF Fixing, DequeueLabel
<1> QED
  BY <1>1, <1>2, <1>5, <1>6, <1>7, <1>8, <1>9, <1>10, <1>11 DEF DequeuerOK

(* An enqueuer knows what it should after a step of its own. *)
LEMMA EnqueuerLearns ==
  ASSUME LCRQInv, NEW t \in Enqueuer, Enqueuing(t) \/ \E v \in Value : EnqueueCall(t, v)
  PROVE  EnqueuerOK(t)'
<1>1. AllTypes /\ EnqueuerOK(t) /\ t \in Thread /\ RingsOK /\ EMPTY \notin Value
  BY LCRQAssumption DEF LCRQInv, Thread
<1>2. /\ my \in [Thread -> LocalType] /\ arg \in [Enqueuer -> Value \cup {EMPTY}]
      /\ pc \in [Thread -> EnqueueLabel \cup DequeueLabel \cup {"idle", "got"}]
      /\ rings \in Seq(RingType) /\ Len(rings) \in Nat
  BY <1>1 DEF AllTypes
<1>3. /\ my[t] \in LocalType /\ my[t].rq \in 1..Len(rings) /\ my[t].index \in Nat /\ my[t].index % RingSize \in Slot
      /\ Cell(t) \in CellType /\ Ring(t) \in RingType /\ my[t].rq \in Nat
  BY <1>1, LocalsTyped
<1>4. my[t].seen \in CellType
  BY <1>3 DEF LocalType
(* the steps after which nothing is known *)
<1>n. ASSUME NEW l, Goto(t, l), l \in {"enq_tail", "enq_next", "enq_draw", "enq_full", "enq_close"},
             UNCHANGED arg, pc[t] # "idle"
      PROVE  EnqueuerOK(t)'
  <2>1. pc'[t] = l /\ arg'[t] # EMPTY
    BY <1>1, <1>2, <1>n DEF Goto, EnqueuerOK
  <2> QED
    BY <1>n, <2>1 DEF EnqueuerOK, Drawn
<1>r. ASSUME EnqueueReturn(t) PROVE EnqueuerOK(t)'
  <2>1. pc'[t] = "idle" /\ arg'[t] = EMPTY
    BY <1>1, <1>2, <1>r DEF Goto, EnqueueReturn
  <2> QED
    BY <2>1 DEF EnqueuerOK, Drawn
(* the steps that only read *)
<1>s. ASSUME UNCHANGED rings, my'[t].rq = my[t].rq, my'[t].index = my[t].index
      PROVE  Ring(t)' = Ring(t) /\ Cell(t)' = Cell(t)
  BY <1>s DEF Ring, Cell
<1>5. ASSUME NEW v \in Value, EnqueueCall(t, v) PROVE EnqueuerOK(t)'
  <2>1. pc'[t] = "enq_tail" /\ arg'[t] = v
    BY <1>1, <1>2, <1>5 DEF Goto, EnqueueCall
  <2> QED
    BY <1>1, <2>1 DEF EnqueuerOK, Drawn
<1>6. ASSUME EnqueueTail(t) \/ EnqueueHelp(t) \/ EnqueueFull(t) PROVE EnqueuerOK(t)'
  <2>1. /\ UNCHANGED arg /\ pc[t] # "idle"
        /\ \E l : l \in {"enq_tail", "enq_next", "enq_close"} /\ Goto(t, l)
    BY <1>6 DEF EnqueueTail, EnqueueHelp, EnqueueFull, EnqueueGoes
  <2> QED
    BY <1>n, <2>1
<1>7. ASSUME EnqueueNext(t) PROVE EnqueuerOK(t)'
  <2>1. CASE IsLast(my[t].rq)
    BY <1>7, <1>n, <2>1 DEF EnqueueNext, EnqueueGoes
  <2>2. CASE ~IsLast(my[t].rq)
    <3>1. pc'[t] = "enq_help" /\ arg'[t] # EMPTY
      BY <1>1, <1>2, <1>7, <2>2 DEF EnqueueNext, EnqueueGoes, Goto, EnqueuerOK
    <3>2. my'[t].rq < Len(rings')
      BY <1>2, <1>3, <1>7, <2>2 DEF EnqueueNext, IsLast, shared
    <3> QED
      BY <3>1, <3>2 DEF EnqueuerOK, Drawn
  <2> QED
    BY <2>1, <2>2
<1>8. ASSUME EnqueueDraw(t) PROVE EnqueuerOK(t)'
  <2>1. my'[t].rq = my[t].rq /\ my'[t].index = Ring(t).tail /\ arg'[t] # EMPTY
        /\ pc'[t] = IF Ring(t).closed THEN "enq_link" ELSE "enq_idx"
    BY <1>1, <1>2, <1>3, <1>8 DEF EnqueueDraw, EnqueueGoes, Goto, EnqueuerOK, LocalType
  <2>2. EndsBecome(my[t].rq, Ring(t).head, Ring(t).tail + 1)
    BY <1>1, <1>3, <1>8, EndsAre DEF EnqueueDraw, Ring
  <2>3. Ring(t)'.tail = Ring(t).tail + 1 /\ Ring(t)'.cell = Ring(t).cell /\ (Ring(t).closed => Ring(t)'.closed)
    BY <1>3, <2>1, <2>2 DEF Ring, EndsBecome
  <2>4. Ring(t).tail \in Nat
    BY <1>3 DEF RingType
  <2>5. Ring(t).tail % RingSize \in Slot
    BY <2>4, SlotOf
  <2>6. Cell(t)' = Ring(t).cell[Ring(t).tail % RingSize]
    BY <2>1, <2>3 DEF Cell
  <2>7. Cell(t)'.idx = Ring(t).tail => Cell(t)'.val = EMPTY
    BY <1>1, <1>3, <2>4, <2>5, <2>6 DEF RingsOK, Ring
  <2> QED
    BY <2>1, <2>3, <2>4, <2>7 DEF EnqueuerOK, Drawn
<1>9. ASSUME EnqueueIdx(t) PROVE EnqueuerOK(t)'
  <2>1. /\ my'[t].rq = my[t].rq /\ my'[t].index = my[t].index /\ my'[t].seen.idx = Cell(t).idx
        /\ arg'[t] # EMPTY /\ pc'[t] = "enq_val" /\ pc[t] = "enq_idx" /\ UNCHANGED rings
    BY <1>1, <1>2, <1>3, <1>4, <1>9 DEF EnqueueIdx, ReadIdx, EnqueueGoes, Goto, EnqueuerOK, LocalType, CellType, shared
  <2>2. Ring(t)' = Ring(t) /\ Cell(t)' = Cell(t)
    BY <1>s, <2>1
  <2>3. Cell(t).idx <= Cell(t).idx
    BY <1>3 DEF CellType
  <2> QED
    BY <1>1, <2>1, <2>2, <2>3 DEF EnqueuerOK, Drawn
<1>10. ASSUME EnqueueVal(t) PROVE EnqueuerOK(t)'
  <2>1. CASE Cell(t).val = EMPTY /\ my[t].seen.idx <= my[t].index
    <3>1. /\ my'[t].rq = my[t].rq /\ my'[t].index = my[t].index /\ my'[t].seen.idx = my[t].seen.idx
          /\ my'[t].seen.val = EMPTY /\ arg'[t] # EMPTY /\ pc'[t] \in {"enq_cas", "enq_head"} /\ pc[t] = "enq_val"
          /\ UNCHANGED rings
      BY <1>1, <1>2, <1>3, <1>4, <1>10, <2>1 DEF EnqueueVal, ReadVal, EnqueueGoes, Goto, EnqueuerOK, LocalType,
            CellType, Fill, shared
    <3>2. Ring(t)' = Ring(t) /\ Cell(t)' = Cell(t)
      BY <1>s, <3>1
    <3> QED
      BY <1>1, <2>1, <3>1, <3>2 DEF EnqueuerOK, Drawn
  <2>2. CASE ~(Cell(t).val = EMPTY /\ my[t].seen.idx <= my[t].index)
    BY <1>10, <1>n, <2>2 DEF EnqueueVal, EnqueueGoes
  <2> QED
    BY <2>1, <2>2
<1>11. ASSUME EnqueueHead(t) PROVE EnqueuerOK(t)'
  <2>1. CASE Ring(t).head < my[t].index
    <3>1. my'[t] = my[t] /\ arg'[t] # EMPTY /\ pc'[t] = "enq_cas" /\ pc[t] = "enq_head" /\ UNCHANGED rings
      BY <1>1, <1>2, <1>11, <2>1 DEF EnqueueHead, EnqueueGoes, Goto, EnqueuerOK, shared
    <3>2. Ring(t)' = Ring(t) /\ Cell(t)' = Cell(t)
      BY <1>s, <3>1
    <3> QED
      BY <1>1, <3>1, <3>2 DEF EnqueuerOK, Drawn
  <2>2. CASE ~(Ring(t).head < my[t].index)
    BY <1>11, <1>n, <2>2 DEF EnqueueHead, EnqueueGoes
  <2> QED
    BY <2>1, <2>2
<1>12. ASSUME EnqueueCas(t) PROVE EnqueuerOK(t)'
  BY <1>12, <1>n, <1>r DEF EnqueueCas, EnqueueGoes
<1>13. ASSUME EnqueueClose(t) PROVE EnqueuerOK(t)'
  <2>1. CASE rings' = [rings EXCEPT ![my[t].rq].closed = TRUE] /\ UNCHANGED my /\ EnqueueGoes(t, "enq_link")
    <3>1. pc'[t] = "enq_link" /\ arg'[t] # EMPTY
      BY <1>1, <1>2, <1>13, <2>1 DEF EnqueueClose, EnqueueGoes, Goto, EnqueuerOK
    <3>2. Ring(t)'.closed
      BY <1>2, <1>3, <2>1 DEF Ring, RingType
    <3> QED
      BY <3>1, <3>2 DEF EnqueuerOK, Drawn
  <2>2. CASE EnqueueGoes(t, "enq_tail")
    BY <1>13, <1>n, <2>2 DEF EnqueueClose, EnqueueGoes
  <2> QED
    BY <1>13, <2>1, <2>2 DEF EnqueueClose
<1>14. ASSUME EnqueueLink(t) PROVE EnqueuerOK(t)'
  <2>1. CASE IsLast(my[t].rq)
    <3>1. pc'[t] = "enq_swing" /\ arg'[t] # EMPTY
      BY <1>1, <1>2, <1>14, <2>1 DEF EnqueueLink, EnqueueGoes, Goto, EnqueuerOK
    <3>2. my'[t].rq = my[t].rq
      BY <1>1, <1>2, <1>3, <1>14, <2>1, LocalsTyped DEF EnqueueLink, NoLocals, LocalType
    <3>3. Len(rings') = Len(rings) + 1
      BY <1>2, <1>14, <2>1 DEF EnqueueLink
    <3>4. my'[t].rq < Len(rings')
      BY <1>2, <1>3, <3>2, <3>3
    <3> QED
      BY <3>1, <3>4 DEF EnqueuerOK, Drawn
  <2>2. CASE ~IsLast(my[t].rq)
    BY <1>14, <1>n, <2>2 DEF EnqueueLink, EnqueueGoes
  <2> QED
    BY <2>1, <2>2
<1>15. ASSUME EnqueueSwing(t) PROVE EnqueuerOK(t)'
  BY <1>15, <1>r DEF EnqueueSwing
<1> QED
  BY <1>5, <1>6, <1>7, <1>8, <1>9, <1>10, <1>11, <1>12, <1>13, <1>14, <1>15 DEF Enqueuing

(* A dequeuer that finds the last ring drained has found the queue empty: what
   is left in it is of indices that were drawn, and nothing is left in the
   rings before head. *)
LEMMA LastRingDrained ==
  ASSUME LCRQInv, NEW i \in Nat, i < rings[Len(rings)].head, rings[Len(rings)].tail <= i + 1, head = Len(rings)
  PROVE  Undrawn = {}
<1>1. AllTypes /\ RingsOK /\ FinishedOK /\ Len(rings) \in Nat
  BY DEF LCRQInv, AllTypes
<1>2. ASSUME NEW r \in 1..Len(rings), NEW c \in Slot, rings[r].cell[c].idx >= rings[r].head
      PROVE  rings[r].cell[c].val = EMPTY
  <2>1. rings[r].head \in Nat /\ rings[r].tail \in Nat /\ rings[r].cell[c].idx \in Nat
    BY <1>1, RingFacts
  <2>2. CASE r = Len(rings)
    BY <1>1, <1>2, <2>1, <2>2 DEF RingsOK
  <2>3. CASE r # Len(rings)
    <3>1. Finished(r)
      BY <1>1, <2>3 DEF FinishedOK
    <3> QED
      BY <1>2, <2>1, <3>1 DEF Finished
  <2> QED
    BY <2>2, <2>3
<1> QED
  BY <1>2 DEF Undrawn, InRing

(* A dequeuer knows what it should after a step of its own. *)
LEMMA DequeuerLearns ==
  ASSUME LCRQInv, NEW t \in Dequeuer, Effect(t), Remember, Dequeuing(t) \/ DequeueCall(t)
  PROVE  DequeuerOK(t)'
<1>1. AllTypes /\ DequeuerOK(t) /\ t \in Thread
  BY DEF LCRQInv, Thread
<1>2. /\ my \in [Thread -> LocalType]
      /\ pc \in [Thread -> EnqueueLabel \cup DequeueLabel \cup {"idle", "got"}]
      /\ rings \in Seq(RingType) /\ Len(rings) \in Nat /\ head \in 1..Len(rings) /\ head \in Nat
      /\ head' \in Nat /\ head <= head' /\ head \in 1..head'
  BY <1>1 DEF AllTypes, Effect
<1>3. /\ my[t] \in LocalType /\ my[t].rq \in 1..Len(rings) /\ my[t].index \in Nat /\ my[t].index % RingSize \in Slot
      /\ Cell(t) \in CellType /\ Ring(t) \in RingType /\ my[t].rq \in Nat /\ my[t].rq <= head
      /\ NoLocals \in LocalType /\ NoLocals.rq = 1 /\ TailOf(t) \in [index : Nat, closed : BOOLEAN]
  BY <1>1, LocalsTyped DEF DequeuerOK, NoLocals
<1>4. my[t].seen \in CellType /\ my[t].seen.idx \in Nat
  BY <1>3 DEF LocalType, CellType
<1> HIDE DEF NoLocals
<1> USE DEF Waiting, Fixing
(* from the position the step is about to leave *)
<1>s. ASSUME my'[t].rq = my[t].rq, my'[t].index = my[t].index
      PROVE  /\ my'[t].rq <= head'
             /\ my[t].index < Ring(t).head => my'[t].index < Ring(t)'.head
             /\ my[t].seen.idx <= Cell(t).idx => my[t].seen.idx <= Cell(t)'.idx
  <2>1. /\ Ring(t).head <= Ring(t)'.head /\ Cell(t).idx <= Cell(t)'.idx
        /\ {Ring(t).head, Ring(t)'.head, Cell(t).idx, Cell(t)'.idx} \subseteq Nat
    BY <1>1, <1>s, CellGrows
  <2>2. my'[t].rq <= head'
    BY <1>2, <1>3, <1>s
  <2>3. my[t].index < Ring(t).head => my'[t].index < Ring(t)'.head
    BY <1>3, <1>s, <2>1
  <2>4. my[t].seen.idx <= Cell(t).idx => my[t].seen.idx <= Cell(t)'.idx
    BY <1>4, <2>1
  <2> QED
    BY <2>2, <2>3, <2>4
<1>w. wasEmpty[t] /\ pc'[t] \in DequeueLabel => wasEmpty'[t]
  BY DEF Remember
(* the steps after which only the index is known *)
<1>n. ASSUME NEW l, Goto(t, l), l \in {"deq_head", "deq_draw", "deq_idx", "deq_close", "deq_test", "idle"},
             my'[t].rq <= head', l \in {"deq_idx", "deq_close", "deq_test"} => my'[t].index < Ring(t)'.head
      PROVE  DequeuerOK(t)'
  <2>1. pc'[t] = l
    BY <1>1, <1>2, <1>n DEF Goto
  <2> QED
    BY <1>n, <2>1 DEF DequeuerOK
<1>5. ASSUME DequeueCall(t) PROVE DequeuerOK(t)'
  BY <1>5, <1>n, <1>s DEF DequeueCall
<1>6. ASSUME DequeueHead(t) PROVE DequeuerOK(t)'
  <2>1. my'[t].rq = head
    BY <1>1, <1>2, <1>3, <1>6 DEF DequeueHead, LocalType
  <2> QED
    BY <1>2, <1>6, <1>n, <2>1 DEF DequeueHead
<1>7. ASSUME DequeueDraw(t) PROVE DequeuerOK(t)'
  <2>1. my'[t].rq = my[t].rq /\ my'[t].index = Ring(t).head
    BY <1>1, <1>2, <1>3, <1>7 DEF DequeueDraw, LocalType
  <2>2. EndsBecome(my[t].rq, Ring(t).head + 1, Ring(t).tail)
    BY <1>1, <1>3, <1>7, EndsAre DEF DequeueDraw, Ring
  <2>3. Ring(t)'.head = Ring(t).head + 1 /\ Ring(t).head \in Nat
    BY <1>3, <2>1, <2>2 DEF Ring, EndsBecome, RingType
  <2> QED
    BY <1>2, <1>3, <1>7, <1>n, <2>1, <2>3 DEF DequeueDraw
<1>8. ASSUME DequeueIdx(t) PROVE DequeuerOK(t)'
  <2>1. /\ my'[t].rq = my[t].rq /\ my'[t].index = my[t].index /\ my'[t].seen.idx = Cell(t).idx
        /\ pc'[t] = "deq_val" /\ pc[t] = "deq_idx" /\ UNCHANGED rings
    BY <1>1, <1>2, <1>3, <1>4, <1>8 DEF DequeueIdx, ReadIdx, Goto, LocalType, CellType, shared
  <2>2. Cell(t)' = Cell(t) /\ Cell(t).idx <= Cell(t).idx
    BY <1>3, <2>1 DEF Cell, Ring, CellType
  <2>3. my[t].index < Ring(t).head
    BY <1>1, <2>1 DEF DequeuerOK
  <2> QED
    BY <1>s, <2>1, <2>2, <2>3 DEF DequeuerOK
<1>p. ASSUME NEW tt, SkipOrWait(t, tt), UNCHANGED shared, pc[t] \in {"deq_val", "deq_look"},
             my[t].seen.idx <= my[t].index
      PROVE  DequeuerOK(t)'
  <2>1. /\ my'[t].rq = my[t].rq /\ my'[t].index = my[t].index /\ my'[t].seen.idx = my[t].seen.idx
        /\ my'[t].seen.val = EMPTY
    BY <1>1, <1>2, <1>3, <1>4, <1>p DEF SkipOrWait, LocalType, CellType
  <2>2. pc'[t] \in {"deq_skip", "deq_idx"}
    BY <1>1, <1>2, <1>p DEF SkipOrWait, Goto
  <2>3. my[t].index < Ring(t).head /\ my[t].seen.idx <= Cell(t).idx
    BY <1>1, <1>p DEF DequeuerOK
  <2> QED
    BY <1>p, <1>s, <2>1, <2>2, <2>3 DEF DequeuerOK
<1>9. ASSUME DequeueVal(t) PROVE DequeuerOK(t)'
  <2>0. my[t].index < Ring(t).head /\ my[t].seen.idx <= Cell(t).idx /\ pc[t] = "deq_val"
    BY <1>1, <1>9 DEF DequeuerOK, DequeueVal
  <2>1. CASE my[t].seen.idx <= my[t].index /\ Cell(t).val = EMPTY /\ ~TimeToLook(t)
    BY <1>9, <1>p, <2>0, <2>1 DEF DequeueVal
  <2>2. CASE ~(my[t].seen.idx <= my[t].index /\ Cell(t).val = EMPTY /\ ~TimeToLook(t))
    <3>1. /\ ReadVal(t)
          /\ Goto(t, IF my[t].seen.idx > my[t].index THEN "deq_test"
                     ELSE IF Cell(t).val = EMPTY THEN "deq_look"
                     ELSE IF my[t].seen.idx = my[t].index THEN "deq_take" ELSE "deq_mark")
      BY <1>9, <2>2 DEF DequeueVal
    <3>2. /\ my'[t].rq = my[t].rq /\ my'[t].index = my[t].index /\ my'[t].seen.idx = my[t].seen.idx
          /\ my'[t].seen.val = Cell(t).val
      BY <1>1, <1>2, <1>3, <1>4, <3>1 DEF ReadVal, LocalType, CellType
    <3>3. /\ pc'[t] \in {"deq_test", "deq_look", "deq_take", "deq_mark"}
          /\ pc'[t] = "deq_look" => my[t].seen.idx <= my[t].index
          /\ pc'[t] \in {"deq_take", "deq_mark"} => Cell(t).val # EMPTY
          /\ pc'[t] = "deq_take" => my[t].seen.idx = my[t].index
          /\ pc'[t] = "deq_mark" => my[t].seen.idx < my[t].index
      BY <1>1, <1>2, <1>3, <1>4, <3>1 DEF Goto
    <3> QED
      BY <1>s, <2>0, <3>2, <3>3 DEF DequeuerOK
  <2> QED
    BY <2>1, <2>2
<1>10. ASSUME DequeueLook(t) PROVE DequeuerOK(t)'
  BY <1>1, <1>10, <1>p DEF DequeueLook, DequeuerOK
<1>11. ASSUME DequeueTake(t) PROVE DequeuerOK(t)'
  <2>1. CASE CellUnchanged(t)
    <3>1. pc'[t] = "got" /\ my'[t].rq = 1 /\ my'[t].seen.val = my[t].seen.val
      <4>1. NoLocals.seen \in CellType
        BY <1>3 DEF LocalType
      <4> QED
        BY <1>1, <1>2, <1>3, <1>11, <2>1, <4>1 DEF DequeueTake, Goto, LocalType, CellType
    <3>2. my[t].seen.val # EMPTY
      BY <1>1, <1>11 DEF DequeueTake, DequeuerOK
    <3> QED
      BY <1>2, <3>1, <3>2 DEF DequeuerOK
  <2>2. CASE ~CellUnchanged(t)
    BY <1>1, <1>11, <1>n, <1>s, <2>2 DEF DequeueTake, DequeuerOK
  <2> QED
    BY <2>1, <2>2
<1>12. ASSUME DequeueMark(t) \/ DequeueSkip(t) \/ DequeueClose(t) PROVE DequeuerOK(t)'
  <2>1. UNCHANGED my /\ pc[t] \in {"deq_mark", "deq_skip", "deq_close"}
        /\ \E l : Goto(t, l) /\ l \in {"deq_test", "deq_idx", "deq_close"}
    BY <1>12 DEF DequeueMark, DequeueSkip, DequeueClose
  <2>2. my[t].index < Ring(t).head
    BY <1>1, <2>1 DEF DequeuerOK
  <2> QED
    BY <1>n, <1>s, <2>1, <2>2
<1>k. ASSUME KeepIndex(t) PROVE my'[t].rq = my[t].rq /\ my'[t].index = my[t].index
  BY <1>1, <1>2, <1>3, <1>k DEF KeepIndex, LocalType
<1>13. ASSUME DequeueTest(t) PROVE DequeuerOK(t)'
  <2>0. my[t].index < Ring(t).head /\ UNCHANGED shared /\ KeepIndex(t)
    BY <1>1, <1>13 DEF DequeueTest, DequeuerOK
  <2>1. CASE Drained(t)
    <3>1. pc'[t] = "fix_tail" /\ pc'[t] \in DequeueLabel
      BY <1>1, <1>2, <1>13, <2>1 DEF DequeueTest, Goto, DequeueLabel
    <3>2. ASSUME IsLast(my[t].rq)' PROVE wasEmpty'[t]
      <4>1. my[t].rq = Len(rings) /\ head = Len(rings)
        BY <1>2, <1>3, <1>k, <2>0, <3>2 DEF IsLast, shared
      <4>2. Undrawn = {}
        BY <1>3, <2>0, <2>1, <4>1, LastRingDrained DEF Drained, Ring
      <4>3. Undrawn' = {}
        BY <2>0, <4>2 DEF Undrawn, InRing, shared
      <4> QED
        BY <3>1, <4>3 DEF Remember, Added
    <3> QED
      BY <1>k, <1>s, <2>0, <3>1, <3>2 DEF DequeuerOK
  <2>2. CASE ~Drained(t)
    BY <1>13, <1>k, <1>n, <1>s, <2>0, <2>2 DEF DequeueTest
  <2> QED
    BY <2>1, <2>2
<1>14. ASSUME FixTail(t) \/ FixHead(t) \/ FixCas(t) PROVE DequeuerOK(t)'
  <2>1. my'[t].rq = my[t].rq /\ my'[t].index = my[t].index /\ pc[t] \in Fixing
    BY <1>1, <1>2, <1>3, <1>14 DEF FixTail, FixHead, FixCas, LocalType
  <2>2. pc'[t] \in Fixing
    BY <1>1, <1>2, <1>14 DEF FixTail, FixHead, FixCas, Goto
  <2>3. IsLast(my[t].rq)' => IsLast(my[t].rq)
    BY <1>1, <1>2, <1>3, <2>1 DEF IsLast, Effect, Grown
  <2>4. my[t].index < Ring(t).head /\ (IsLast(my[t].rq) => wasEmpty[t])
    BY <1>1, <2>1 DEF DequeuerOK
  <2>5. pc'[t] \in DequeueLabel
    BY <2>2 DEF DequeueLabel
  <2> QED
    BY <1>s, <1>w, <2>1, <2>2, <2>3, <2>4, <2>5 DEF DequeuerOK
<1>15. ASSUME DequeueNext(t) PROVE DequeuerOK(t)'
  <2>1. KeepIndex(t) /\ UNCHANGED shared /\ pc[t] = "deq_next"
    BY <1>15 DEF DequeueNext
  <2>2. my[t].index < Ring(t).head /\ (IsLast(my[t].rq) => wasEmpty[t])
    BY <1>1, <2>1 DEF DequeuerOK
  <2>3. CASE IsLast(my[t].rq)
    <3>1. pc'[t] = "empty" /\ pc'[t] \in DequeueLabel
      BY <1>1, <1>2, <1>15, <2>3 DEF DequeueNext, AfterDrained, Goto, DequeueLabel
    <3> QED
      BY <1>k, <1>s, <1>w, <2>1, <2>2, <2>3, <3>1 DEF DequeuerOK
  <2>4. CASE ~IsLast(my[t].rq)
    <3>1. pc'[t] = "deq_again"
      BY <1>1, <1>2, <1>15, <2>4 DEF DequeueNext, AfterDrained, Goto
    <3>2. my[t].rq < Len(rings')
      BY <1>2, <1>3, <2>1, <2>4 DEF IsLast, shared
    <3> QED
      BY <1>k, <1>s, <2>1, <2>2, <3>1, <3>2 DEF DequeuerOK
  <2> QED
    BY <2>3, <2>4
<1>16. ASSUME DequeueAgain(t) PROVE DequeuerOK(t)'
  <2>1. UNCHANGED <<shared, my>> /\ pc[t] = "deq_again"
    BY <1>16 DEF DequeueAgain
  <2>2. CASE Drained(t)
    <3>1. pc'[t] = "deq_swing"
      BY <1>1, <1>2, <1>16, <2>2 DEF DequeueAgain, Goto
    <3>2. my[t].rq < Len(rings')
      BY <1>1, <2>1 DEF DequeuerOK, shared
    <3> QED
      BY <1>s, <2>1, <3>1, <3>2 DEF DequeuerOK
  <2>3. CASE ~Drained(t)
    BY <1>16, <1>n, <1>s, <2>3 DEF DequeueAgain
  <2> QED
    BY <2>2, <2>3
<1>17. ASSUME DequeueSwing(t) PROVE DequeuerOK(t)'
  BY <1>17, <1>n, <1>s DEF DequeueSwing
<1>18. ASSUME DequeueReturn(t) PROVE DequeuerOK(t)'
  <2>1. my'[t].rq = 1
    BY <1>1, <1>2, <1>3, <1>18 DEF DequeueReturn
  <2> QED
    BY <1>2, <1>18, <1>n, <2>1 DEF DequeueReturn
<1> QED
  BY <1>5, <1>6, <1>7, <1>8, <1>9, <1>10, <1>11, <1>12, <1>13, <1>14, <1>15, <1>16, <1>17, <1>18 DEF Dequeuing

-----------------------------------------------------------------------------
(* Indices and finished rings *)

(* How enqueue comes to hold an index, and dequeue to wait for one. *)
StillDrawn(t) ==
  Drawn(t) /\ my'[t].rq = my[t].rq /\ my'[t].index = my[t].index /\ arg'[t] = arg[t]
NowDrawn(t) ==
  Drawing(t) /\ ~Ring(t).closed /\ my'[t].rq = my[t].rq /\ my'[t].index = Ring(t).tail /\ arg'[t] = arg[t]
StillWaiting(t) ==
  pc[t] \in Waiting /\ my'[t].rq = my[t].rq /\ my'[t].index = my[t].index
NowWaiting(t) ==
  Reaching(t) /\ my'[t].rq = my[t].rq /\ my'[t].index = Ring(t).head

Positions(t) ==
  /\ t \in Enqueuer /\ Drawn(t)' => StillDrawn(t) \/ NowDrawn(t)
  /\ t \in Dequeuer /\ pc'[t] \in Waiting => StillWaiting(t) \/ NowWaiting(t)

LEMMA EnqueuePositions ==
  ASSUME LCRQInv, NEW t \in Enqueuer, Enqueuing(t) \/ \E v \in Value : EnqueueCall(t, v)
  PROVE  Positions(t)
<1>1. AllTypes /\ t \in Thread /\ t \notin Dequeuer
  BY LCRQAssumption DEF LCRQInv, Thread
<1>2. /\ my \in [Thread -> LocalType] /\ my[t] \in LocalType /\ my[t].seen \in CellType
      /\ pc \in [Thread -> EnqueueLabel \cup DequeueLabel \cup {"idle", "got"}]
      /\ my[t].rq \in 1..Len(rings)
  BY <1>1, LocalsTyped DEF AllTypes, LocalType
<1>3. ASSUME EnqueueDraw(t), Drawn(t)' PROVE NowDrawn(t)
  <2>1. /\ my'[t].rq = my[t].rq /\ my'[t].index = Ring(t).tail /\ arg'[t] = arg[t]
        /\ pc[t] = "enq_draw" /\ pc'[t] = IF Ring(t).closed THEN "enq_link" ELSE "enq_idx"
    BY <1>1, <1>2, <1>3 DEF EnqueueDraw, EnqueueGoes, Goto, LocalType
  <2>2. Drawing(t)
    BY <1>1, <1>2, <1>3, EndsAre DEF EnqueueDraw, Ring, Drawing
  <2> QED
    BY <1>3, <2>1, <2>2 DEF NowDrawn, Drawn
<1>4. ASSUME EnqueueIdx(t) PROVE StillDrawn(t)
  BY <1>1, <1>2, <1>4 DEF EnqueueIdx, ReadIdx, EnqueueGoes, StillDrawn, Drawn, LocalType
<1>5. ASSUME EnqueueVal(t) PROVE StillDrawn(t)
  BY <1>1, <1>2, <1>5 DEF EnqueueVal, ReadVal, EnqueueGoes, StillDrawn, Drawn, LocalType
<1>6. ASSUME EnqueueHead(t) PROVE StillDrawn(t)
  BY <1>1, <1>2, <1>6 DEF EnqueueHead, EnqueueGoes, StillDrawn, Drawn
<1>7. ASSUME \/ EnqueueTail(t) \/ EnqueueNext(t) \/ EnqueueHelp(t) \/ EnqueueCas(t) \/ EnqueueFull(t)
             \/ EnqueueClose(t) \/ EnqueueLink(t) \/ EnqueueSwing(t) \/ \E v \in Value : EnqueueCall(t, v)
      PROVE  ~Drawn(t)'
  <2>1. pc'[t] \in {"idle", "enq_tail", "enq_next", "enq_help", "enq_draw", "enq_full", "enq_close", "enq_link",
                    "enq_swing"}
    BY <1>1, <1>2, <1>7 DEF EnqueueTail, EnqueueNext, EnqueueHelp, EnqueueCas, EnqueueFull, EnqueueClose,
          EnqueueLink, EnqueueSwing, EnqueueCall, EnqueueGoes, EnqueueReturn, Goto
  <2> QED
    BY <2>1 DEF Drawn
<1> QED
  BY <1>1, <1>3, <1>4, <1>5, <1>6, <1>7 DEF Enqueuing, Positions

LEMMA DequeuePositions ==
  ASSUME LCRQInv, NEW t \in Dequeuer, Dequeuing(t) \/ DequeueCall(t)
  PROVE  Positions(t)
<1> USE DEF Waiting
<1>1. AllTypes /\ t \in Thread /\ t \notin Enqueuer
  BY LCRQAssumption DEF LCRQInv, Thread
<1>2. /\ my \in [Thread -> LocalType] /\ my[t] \in LocalType /\ my[t].seen \in CellType
      /\ pc \in [Thread -> EnqueueLabel \cup DequeueLabel \cup {"idle", "got"}]
      /\ my[t].rq \in 1..Len(rings)
  BY <1>1, LocalsTyped DEF AllTypes, LocalType
<1>3. ASSUME DequeueDraw(t) PROVE NowWaiting(t)
  <2>1. my'[t].rq = my[t].rq /\ my'[t].index = Ring(t).head
    BY <1>1, <1>2, <1>3 DEF DequeueDraw, LocalType
  <2>2. Reaching(t)
    BY <1>1, <1>2, <1>3, EndsAre DEF DequeueDraw, Ring, Reaching
  <2> QED
    BY <2>1, <2>2 DEF NowWaiting
<1>4. ASSUME DequeueIdx(t) PROVE StillWaiting(t)
  BY <1>1, <1>2, <1>4 DEF DequeueIdx, ReadIdx, StillWaiting, LocalType
<1>5. ASSUME DequeueVal(t) \/ DequeueLook(t) PROVE StillWaiting(t)
  BY <1>1, <1>2, <1>5 DEF DequeueVal, DequeueLook, SkipOrWait, ReadVal, StillWaiting, LocalType
<1>6. ASSUME DequeueTake(t), pc'[t] \in Waiting PROVE StillWaiting(t)
  BY <1>1, <1>2, <1>6 DEF DequeueTake, StillWaiting, Goto
<1>7. ASSUME DequeueMark(t) \/ DequeueSkip(t) PROVE StillWaiting(t)
  BY <1>1, <1>2, <1>7 DEF DequeueMark, DequeueSkip, StillWaiting
<1>8. ASSUME \/ DequeueHead(t) \/ DequeueClose(t) \/ DequeueTest(t) \/ FixTail(t) \/ FixHead(t) \/ FixCas(t)
             \/ DequeueNext(t) \/ DequeueAgain(t) \/ DequeueSwing(t) \/ DequeueReturn(t) \/ DequeueCall(t)
      PROVE  pc'[t] \notin Waiting
  BY <1>1, <1>2, <1>8 DEF DequeueHead, DequeueClose, DequeueTest, FixTail, FixHead, FixCas, DequeueNext,
        DequeueAgain, DequeueSwing, DequeueReturn, DequeueCall, AfterDrained, Goto
<1> QED
  BY <1>1, <1>3, <1>4, <1>5, <1>6, <1>7, <1>8 DEF Dequeuing, Positions

LEMMA StepDistinctOK ==
  ASSUME LCRQInv, NEW t \in Thread, Effect(t), Positions(t)
  PROVE  DistinctOK'
<1>1. AllTypes /\ DistinctOK /\ (\A u \in Enqueuer : EnqueuerOK(u)) /\ \A u \in Dequeuer : DequeuerOK(u)
  BY DEF LCRQInv
<1>2. \A u \in Thread \ {t} : pc'[u] = pc[u] /\ my'[u] = my[u]
  BY DEF Effect, OnlyMe
<1>3. \A u \in Enqueuer \cup Dequeuer : u \in Thread /\ my[u].index \in Nat /\ Ring(u).head \in Nat /\ Ring(u).tail \in Nat
  BY <1>1, LocalsTyped DEF Thread, RingType
<1>4. ASSUME NEW u \in Enqueuer, u # t, t \in Enqueuer, Drawn(t)', Drawn(u)', my'[t].rq = my'[u].rq
      PROVE  my'[t].index # my'[u].index
  <2>1. Drawn(u) /\ my'[u] = my[u]
    BY <1>2, <1>3, <1>4 DEF Drawn
  <2>2. CASE StillDrawn(t)
    BY <1>1, <1>4, <2>1, <2>2 DEF StillDrawn, DistinctOK
  <2>3. CASE NowDrawn(t)
    <3>1. my[u].index < Ring(u).tail /\ Ring(u) = Ring(t)
      BY <1>1, <1>4, <2>1, <2>3 DEF NowDrawn, EnqueuerOK, Ring
    <3> QED
      BY <1>3, <2>1, <2>3, <3>1 DEF NowDrawn
  <2> QED
    BY <1>4, <2>2, <2>3 DEF Positions
<1>5. ASSUME NEW u \in Dequeuer, u # t, t \in Dequeuer, pc'[t] \in Waiting, pc'[u] \in Waiting, my'[t].rq = my'[u].rq
      PROVE  my'[t].index # my'[u].index
  <2>1. pc[u] \in Waiting /\ my'[u] = my[u]
    BY <1>2, <1>3, <1>5
  <2>2. CASE StillWaiting(t)
    BY <1>1, <1>5, <2>1, <2>2 DEF StillWaiting, DistinctOK
  <2>3. CASE NowWaiting(t)
    <3>1. my[u].index < Ring(u).head /\ Ring(u) = Ring(t)
      BY <1>1, <1>5, <2>1, <2>3 DEF NowWaiting, DequeuerOK, Ring
    <3> QED
      BY <1>3, <2>1, <2>3, <3>1 DEF NowWaiting
  <2> QED
    BY <1>5, <2>2, <2>3 DEF Positions
<1>6. ASSUME NEW u \in Enqueuer, NEW w \in Enqueuer, u # w, Drawn(u)', Drawn(w)', my'[u].rq = my'[w].rq
      PROVE  my'[u].index # my'[w].index
  <2>1. CASE u = t \/ w = t
    BY <1>4, <1>6, <2>1
  <2>2. CASE u # t /\ w # t
    BY <1>1, <1>2, <1>3, <1>6, <2>2 DEF DistinctOK, Drawn
  <2> QED
    BY <2>1, <2>2
<1>7. ASSUME NEW u \in Dequeuer, NEW w \in Dequeuer, u # w, pc'[u] \in Waiting, pc'[w] \in Waiting, my'[u].rq = my'[w].rq
      PROVE  my'[u].index # my'[w].index
  <2>1. CASE u = t \/ w = t
    BY <1>5, <1>7, <2>1
  <2>2. CASE u # t /\ w # t
    BY <1>1, <1>2, <1>3, <1>7, <2>2 DEF DistinctOK
  <2> QED
    BY <2>1, <2>2
<1> QED
  BY <1>6, <1>7 DEF DistinctOK

(* A finished ring stays so. *)
LEMMA FinishedStays ==
  ASSUME LCRQInv, NEW t \in Thread, Effect(t), Positions(t), NEW r \in 1..Len(rings), Finished(r)
  PROVE  Finished(r)'
<1>1. AllTypes /\ AllTypes' /\ Grown /\ r \in 1..Len(rings') /\ Len(rings) \in Nat /\ Len(rings') \in Nat
  BY DEF LCRQInv, Effect, AllTypes, Grown
<1>2. rings[r].head <= rings'[r].head /\ rings[r].head \in Nat /\ rings'[r].head \in Nat
      /\ (\A c \in Slot : rings[r].cell[c].idx \in Nat) /\ rings'[r].closed
  <2>1. rings'[r] \in RingType
    BY <1>1 DEF AllTypes
  <2> QED
    BY <1>1, <2>1, RingFacts DEF Grown, RingType, Finished
<1>3. ASSUME NEW c \in Slot, rings'[r].cell[c].val # EMPTY PROVE rings'[r].cell[c].idx < rings'[r].head
  <2>1. CASE Kept(r, c)
    BY <1>2, <1>3, <2>1 DEF Kept, Finished
  <2>2. CASE Filling(t) /\ t \in Enqueuer /\ r = my[t].rq /\ c = my[t].index % RingSize
    <3>1. rings'[r].cell[c].idx = my[t].index /\ my[t].index < rings[r].head /\ my[t].index \in Nat
      BY <1>1, <2>2, LocalsTyped DEF Filling, CellGets, NewCell, Finished, Drawn
    <3> QED
      BY <1>2, <3>1
  <2> QED
    BY <2>1, <2>2 DEF Effect
<1>4. ASSUME NEW u \in Enqueuer, Drawn(u)', my'[u].rq = r PROVE my'[u].index < rings'[r].head
  <2>0. u \in Thread
    BY DEF Thread
  <2>1. Drawn(u) /\ my[u].rq = r /\ my'[u].index = my[u].index
    <3>1. CASE u # t
      BY <1>4, <2>0, <3>1 DEF Effect, OnlyMe, Drawn
    <3>2. CASE u = t
      <4>1. ~NowDrawn(t)
        BY <1>4, <3>2 DEF NowDrawn, Ring, Finished
      <4> QED
        BY <1>4, <3>2, <4>1 DEF Positions, StillDrawn
    <3> QED
      BY <3>1, <3>2
  <2>2. my[u].index \in Nat
    BY <1>1, <2>0, LocalsTyped
  <2> QED
    BY <1>2, <2>1, <2>2 DEF Finished
<1> QED
  BY <1>2, <1>3, <1>4 DEF Finished

(* The second test of tail: what is in the ring was drawn, and the ring is
   closed, since another one follows. *)
LEMMA SecondTest ==
  ASSUME LCRQInv, NEW t \in Dequeuer, pc[t] = "deq_again", Drained(t)
  PROVE  Finished(my[t].rq)
<1>1. AllTypes /\ RingsOK /\ DequeuerOK(t) /\ t \in Thread /\ \A u \in Enqueuer : EnqueuerOK(u) /\ u \in Thread
  BY DEF LCRQInv, Thread
<1>2. /\ my[t].rq \in 1..Len(rings) /\ my[t].rq \in Nat /\ my[t].index \in Nat /\ Len(rings) \in Nat
      /\ \A u \in Enqueuer : my[u].index \in Nat
  BY <1>1, LocalsTyped
<1>3. rings[my[t].rq].tail <= rings[my[t].rq].head
      /\ rings[my[t].rq].tail \in Nat /\ rings[my[t].rq].head \in Nat
      /\ \A c \in Slot : rings[my[t].rq].cell[c].idx \in Nat
  <2>1. rings[my[t].rq].tail <= my[t].index + 1 /\ my[t].index < rings[my[t].rq].head
    BY <1>1 DEF DequeuerOK, Drained, Ring
  <2> QED
    BY <1>1, <1>2, <2>1, RingFacts
<1>4. rings[my[t].rq].closed
  BY <1>1, <1>2 DEF DequeuerOK, RingsOK
<1>5. \A c \in Slot : rings[my[t].rq].cell[c].val # EMPTY => rings[my[t].rq].cell[c].idx < rings[my[t].rq].head
  <2>1. SUFFICES ASSUME NEW c \in Slot, rings[my[t].rq].cell[c].val # EMPTY
                 PROVE  rings[my[t].rq].cell[c].idx < rings[my[t].rq].head
    OBVIOUS
  <2>2. rings[my[t].rq].cell[c].idx < rings[my[t].rq].tail
    BY <1>1, <1>2, <2>1 DEF RingsOK
  <2> QED
    BY <1>3, <2>2
<1>6. \A u \in Enqueuer : Drawn(u) /\ my[u].rq = my[t].rq => my[u].index < rings[my[t].rq].head
  BY <1>1, <1>2, <1>3 DEF EnqueuerOK, Ring
<1> QED
  BY <1>4, <1>5, <1>6 DEF Finished

(* Where dequeue comes to the swing of head, and what that does. *)
Swinging(t) ==
  /\ pc'[t] = "deq_swing" /\ t \in Dequeuer => pc[t] = "deq_again" /\ Drained(t) /\ my'[t].rq = my[t].rq
  /\ head' # head => t \in Dequeuer /\ pc[t] = "deq_swing" /\ head = my[t].rq /\ head' = head + 1

LEMMA EnqueueSwinging ==
  ASSUME LCRQInv, NEW t \in Enqueuer, Enqueuing(t) \/ \E v \in Value : EnqueueCall(t, v)
  PROVE  Swinging(t)
<1>1. t \notin Dequeuer /\ t \in Thread /\ pc[t] # "deq_swing"
  BY LCRQAssumption DEF Thread, LCRQInv, AllTypes, EnqueueLabel
<1>2. head' = head
  <2>1. CASE Enqueuing(t)
    BY <1>1, <2>1, HeadGrows
  <2>2. CASE \E v \in Value : EnqueueCall(t, v)
    BY <2>2 DEF EnqueueCall, shared
  <2> QED
    BY <2>1, <2>2
<1> QED
  BY <1>1, <1>2 DEF Swinging

LEMMA DequeueSwinging ==
  ASSUME LCRQInv, NEW t \in Dequeuer, Dequeuing(t) \/ DequeueCall(t)
  PROVE  Swinging(t)
<1>1. AllTypes /\ t \in Thread
  BY DEF LCRQInv, Thread
<1>2. pc \in [Thread -> EnqueueLabel \cup DequeueLabel \cup {"idle", "got"}]
  BY <1>1 DEF AllTypes
<1>3. ASSUME DequeueAgain(t) PROVE Swinging(t)
  BY <1>1, <1>2, <1>3 DEF DequeueAgain, Goto, Swinging, shared
<1>4. ASSUME DequeueSwing(t) PROVE Swinging(t)
  BY <1>1, <1>2, <1>4 DEF DequeueSwing, Goto, Swinging
<1>5. ASSUME ~DequeueAgain(t), ~DequeueSwing(t) PROVE pc'[t] # "deq_swing"
  BY <1>1, <1>2, <1>5 DEF Dequeuing, DequeueCall, DequeueHead, DequeueDraw, DequeueIdx, DequeueVal, DequeueLook,
              SkipOrWait, DequeueTake, DequeueMark, DequeueSkip, DequeueClose, DequeueTest, FixTail, FixHead, FixCas,
              DequeueNext, AfterDrained, DequeueReturn, Goto
<1>6. ASSUME ~DequeueAgain(t), ~DequeueSwing(t) PROVE head' = head
  BY <1>6 DEF Dequeuing, DequeueCall, DequeueHead, DequeueDraw, DequeueIdx, DequeueVal, DequeueLook,
              DequeueTake, DequeueMark, DequeueSkip, DequeueClose, DequeueTest, FixTail, FixHead, FixCas,
              DequeueNext, DequeueReturn, shared
<1> QED
  BY <1>3, <1>4, <1>5, <1>6 DEF Swinging

LEMMA StepFinishedOK ==
  ASSUME LCRQInv, NEW t \in Thread, Effect(t), Positions(t), Swinging(t)
  PROVE  FinishedOK'
<1>1. AllTypes /\ FinishedOK /\ head \in 1..Len(rings) /\ Len(rings) \in Nat /\ head \in Nat
  BY DEF LCRQInv, AllTypes
<1>2. ASSUME NEW r \in 1..head' - 1 PROVE Finished(r)'
  <2>1. CASE head' = head
    BY <1>1, <1>2, <2>1, FinishedStays DEF FinishedOK
  <2>2. CASE head' # head
    <3>1. r \in 1..head /\ Finished(head)
      BY <1>1, <1>2, <2>2 DEF Swinging, FinishedOK
    <3>2. Finished(r)
      BY <1>1, <3>1 DEF FinishedOK
    <3> QED
      BY <1>1, <3>1, <3>2, FinishedStays
  <2> QED
    BY <2>1, <2>2
<1>3. ASSUME NEW u \in Dequeuer, pc'[u] = "deq_swing" PROVE Finished(my[u].rq)'
  <2>1. u \in Thread /\ my[u].rq \in 1..Len(rings)
    BY <1>1, LocalsTyped DEF Thread
  <2>2. PICK r \in 1..Len(rings) : r = my[u].rq
    BY <2>1
  <2>3. my'[u].rq = r
    BY <1>3, <2>1, <2>2 DEF Swinging, Effect, OnlyMe
  <2>4. Finished(r)
    <3>1. CASE u = t
      BY <1>3, <2>2, <3>1, SecondTest DEF Swinging
    <3>2. CASE u # t
      BY <1>1, <1>3, <2>1, <2>2, <3>2 DEF Effect, OnlyMe, FinishedOK
    <3> QED
      BY <3>1, <3>2
  <2>5. Finished(r)'
    BY <1>1, <2>4, FinishedStays
  <2> QED
    BY <2>3, <2>5 DEF Finished
<1> QED
  BY <1>2, <1>3 DEF FinishedOK

-----------------------------------------------------------------------------
(* Values and cells *)

(* What becomes of the argument and the history. *)
Arguments(t) ==
  /\ put \subseteq put'
  /\ \/ UNCHANGED before
     \/ t \in Enqueuer /\ arg'[t] \notin put /\ arg'[t] \in put' /\ arg'[t] # EMPTY /\ UNCHANGED rings
        /\ before' = before \cup (Added \X {arg'[t]})
  /\ t \in Enqueuer =>
       /\ pc'[t] = "idle" => arg'[t] = EMPTY
       /\ \/ arg'[t] = arg[t] /\ pc[t] # "enq_swing"
          \/ arg'[t] = EMPTY
          \/ arg'[t] \notin put /\ arg'[t] \in put'

LEMMA EnqueueArguments ==
  ASSUME LCRQInv, NEW t \in Enqueuer, Enqueuing(t) \/ \E v \in Value : EnqueueCall(t, v)
  PROVE  Arguments(t)
<1>1. AllTypes /\ t \in Thread /\ EnqueuerOK(t)' /\ EMPTY \notin Value
  BY LCRQAssumption, EnqueuerLearns DEF LCRQInv, Thread
<1>2. arg \in [Enqueuer -> Value \cup {EMPTY}]
  BY <1>1 DEF AllTypes
<1>3. ASSUME NEW v \in Value, EnqueueCall(t, v) PROVE Arguments(t)
  BY <1>1, <1>2, <1>3 DEF EnqueueCall, Arguments, EnqueuerOK, shared
<1>4. ASSUME EnqueueReturn(t) PROVE Arguments(t)
  BY <1>1, <1>2, <1>4 DEF EnqueueReturn, Arguments, history
<1>5. ASSUME UNCHANGED <<arg, history>>, pc[t] # "enq_swing" PROVE Arguments(t)
  BY <1>1, <1>2, <1>5 DEF Arguments, EnqueuerOK, history
<1>6. ASSUME Enqueuing(t) PROVE EnqueueReturn(t) \/ (UNCHANGED <<arg, history>> /\ pc[t] # "enq_swing")
  BY <1>6 DEF Enqueuing, EnqueueTail, EnqueueNext, EnqueueHelp, EnqueueDraw, EnqueueIdx,
              EnqueueVal, EnqueueHead, EnqueueCas, EnqueueFull, EnqueueClose, EnqueueLink, EnqueueSwing, EnqueueGoes
<1> QED
  BY <1>3, <1>4, <1>5, <1>6

LEMMA DequeueArguments ==
  ASSUME NEW t \in Dequeuer, UNCHANGED <<arg, history>>
  PROVE  Arguments(t)
<1>1. t \notin Enqueuer
  BY LCRQAssumption
<1> QED
  BY <1>1 DEF Arguments, history

(* A value in a cell was there before, or is filled in or linked by this step. *)
Stays(r, c) ==
  /\ r \in 1..Len(rings)
  /\ rings[r].cell[c].val = rings'[r].cell[c].val /\ rings[r].cell[c].idx = rings'[r].cell[c].idx
Filled(t, r, c) ==
  /\ t \in Enqueuer /\ Filling(t) /\ r = my[t].rq /\ r \in 1..Len(rings) /\ c = my[t].index % RingSize
  /\ rings'[r].cell[c].val = arg[t] /\ rings'[r].cell[c].idx = my[t].index
Linked(t, r, c) ==
  /\ t \in Enqueuer /\ Linking(t) /\ r = Len(rings) + 1 /\ c = 0
  /\ rings'[r].cell[c].val = arg[t] /\ rings'[r].cell[c].idx = 0

LEMMA Origin ==
  ASSUME LCRQInv, NEW t \in Thread, Effect(t), NEW r \in 1..Len(rings'), NEW c \in Slot, rings'[r].cell[c].val # EMPTY
  PROVE  Stays(r, c) \/ Filled(t, r, c) \/ Linked(t, r, c)
<1>1. AllTypes /\ Grown /\ Len(rings) \in Nat /\ Len(rings') \in Nat /\ RingStep(t)
  BY DEF LCRQInv, Effect, AllTypes
<1>2. CASE r \in 1..Len(rings)
  <2>1. CASE Kept(r, c)
    BY <1>2, <2>1 DEF Kept, Stays
  <2>2. CASE Filling(t) /\ t \in Enqueuer /\ r = my[t].rq /\ c = my[t].index % RingSize
    BY <1>2, <2>2 DEF Filling, CellGets, NewCell, Filled
  <2> QED
    BY <1>2, <2>1, <2>2 DEF Effect
<1>3. CASE r \notin 1..Len(rings)
  <2>1. Linking(t) /\ t \in Enqueuer
    <3>1. Len(rings') # Len(rings)
      BY <1>1, <1>3
    <3> QED
      BY <1>1, <3>1, CellGetsIs DEF RingStep, EndsBecome, Drawing, Reaching, Closing, Fixed, Filling, Taking, Marking,
                    Skipping
  <2>2. r = Len(rings) + 1 /\ rings'[r] = NewRing(arg[t])
    BY <1>1, <1>3, <2>1 DEF Linking, RingLinked
  <2>3. NewRing(arg[t]).cell[c].val # EMPTY =>
          c = 0 /\ NewRing(arg[t]).cell[c].val = arg[t] /\ NewRing(arg[t]).cell[c].idx = 0
    BY DEF NewRing, EmptyRing
  <2> QED
    BY <2>1, <2>2, <2>3 DEF Linked
<1> QED
  BY <1>2, <1>3

LEMMA StepPlacesOK ==
  ASSUME LCRQInv, NEW t \in Thread, Effect(t), Arguments(t)
  PROVE  PlacesOK'
<1>1. AllTypes /\ PlacesOK /\ \A u \in Enqueuer : u \in Thread
  BY DEF LCRQInv, Thread
<1>2. \A u \in Enqueuer \ {t} : arg'[u] = arg[u] /\ pc'[u] = pc[u]
  BY <1>1 DEF Effect, OnlyMe
<1>3. \A u \in Enqueuer : arg'[u] \in put' \cup {EMPTY}
  BY <1>1, <1>2 DEF PlacesOK, Arguments
<1>4. \A u, w \in Enqueuer : arg'[u] = arg'[w] /\ arg'[u] # EMPTY => u = w
  BY <1>1, <1>2 DEF PlacesOK, Arguments
<1>5. ASSUME NEW r \in 1..Len(rings'), NEW c \in Slot, rings'[r].cell[c].val # EMPTY
      PROVE  /\ rings'[r].cell[c].val \in put'
             /\ \A u \in Enqueuer : arg'[u] = rings'[r].cell[c].val => pc'[u] = "enq_swing"
  <2> DEFINE v == rings'[r].cell[c].val
  <2>1. CASE Stays(r, c)
    <3>1. v \in put /\ \A u \in Enqueuer : arg[u] = v => pc[u] = "enq_swing"
      BY <1>1, <1>5, <2>1 DEF Stays, PlacesOK
    <3> QED
      BY <1>2, <1>5, <3>1 DEF Arguments
  <2>2. CASE Filled(t, r, c) \/ Linked(t, r, c)
    <3>1. v = arg[t] /\ v # EMPTY /\ t \in Enqueuer /\ pc'[t] \in {"idle", "enq_swing"}
      BY <1>5, <2>2 DEF Filled, Linked, Filling, Linking
    <3>2. v \in put
      BY <1>1, <3>1 DEF PlacesOK
    <3>3. \A u \in Enqueuer \ {t} : arg'[u] # v
      BY <1>1, <1>2, <3>1 DEF PlacesOK
    <3>4. arg'[t] = v => pc'[t] = "enq_swing"
      BY <3>1 DEF Arguments
    <3> QED
      BY <3>2, <3>3, <3>4 DEF Arguments
  <2> QED
    BY <1>5, <2>1, <2>2, Origin
<1>6. ASSUME NEW r \in 1..Len(rings'), NEW c \in Slot, rings'[r].cell[c].val # EMPTY,
             NEW q \in 1..Len(rings'), NEW d \in Slot, rings'[q].cell[d].val = rings'[r].cell[c].val
      PROVE  q = r /\ d = c
  <2>1. Stays(r, c) \/ Filled(t, r, c) \/ Linked(t, r, c)
    BY <1>6, Origin
  <2>2. Stays(q, d) \/ Filled(t, q, d) \/ Linked(t, q, d)
    BY <1>6, Origin
  <2>3. CASE Stays(r, c) /\ Stays(q, d)
    BY <1>1, <1>6, <2>3 DEF Stays, PlacesOK
  <2>4. ASSUME NEW r1 \in 1..Len(rings'), NEW c1 \in Slot, Stays(r1, c1), t \in Enqueuer, arg[t] = rings'[r1].cell[c1].val,
               rings'[r1].cell[c1].val # EMPTY, pc[t] \in {"enq_cas", "enq_link"}
        PROVE  FALSE
    BY <1>1, <2>4 DEF Stays, PlacesOK
  <2>5. CASE Stays(r, c) /\ ~Stays(q, d)
    BY <1>6, <2>2, <2>4, <2>5 DEF Filled, Linked, Filling, Linking
  <2>6. CASE ~Stays(r, c) /\ Stays(q, d)
    BY <1>6, <2>1, <2>4, <2>6 DEF Filled, Linked, Filling, Linking
  <2>7. CASE ~Stays(r, c) /\ ~Stays(q, d)
    BY <2>1, <2>2, <2>7 DEF Filled, Linked, Filling, Linking
  <2> QED
    BY <2>3, <2>5, <2>6, <2>7
<1> QED
  BY <1>3, <1>4, <1>5, <1>6 DEF PlacesOK

LEMMA StepOrderOK ==
  ASSUME LCRQInv, NEW t \in Thread, Effect(t), Positions(t), Arguments(t)
  PROVE  OrderOK'
<1>1. AllTypes /\ PlacesOK /\ OrderOK /\ RingsOK /\ (\A u \in Enqueuer : u \in Thread)
      /\ Len(rings) \in Nat /\ Len(rings') \in Nat
  BY DEF LCRQInv, Thread, Effect, AllTypes
<1>2. \A u \in Enqueuer \ {t} : arg'[u] = arg[u] /\ pc'[u] = pc[u] /\ my'[u] = my[u]
  BY <1>1 DEF Effect, OnlyMe
<1>3. EMPTY \notin Value
  BY LCRQAssumption
<1>4. ASSUME NEW u \in Value, NEW v \in Value, <<u, v>> \in before
      PROVE  /\ u \in put' /\ v \in put'
             /\ \A w \in Enqueuer : arg'[w] # u
             /\ \A r \in 1..Len(rings'), c \in Slot : rings'[r].cell[c].val = u =>
                  /\ \A w \in Enqueuer : arg'[w] = v /\ Drawn(w)' =>
                       Less(r, rings'[r].cell[c].idx, my'[w].rq, my'[w].index)
                  /\ \A q \in 1..Len(rings'), d \in Slot : rings'[q].cell[d].val = v =>
                       Less(r, rings'[r].cell[c].idx, q, rings'[q].cell[d].idx)
  <2>1. u \in put /\ v \in put /\ (\A w \in Enqueuer : arg[w] # u) /\ u # EMPTY /\ v # EMPTY
    BY <1>1, <1>3, <1>4 DEF OrderOK
  <2>2. u \in put' /\ v \in put' /\ \A w \in Enqueuer : arg'[w] # u
    BY <1>2, <2>1 DEF Arguments
  <2>3. ASSUME NEW r \in 1..Len(rings'), NEW c \in Slot, rings'[r].cell[c].val = u
        PROVE  /\ \A w \in Enqueuer : arg'[w] = v /\ Drawn(w)' =>
                       Less(r, rings'[r].cell[c].idx, my'[w].rq, my'[w].index)
               /\ \A q \in 1..Len(rings'), d \in Slot : rings'[q].cell[d].val = v =>
                       Less(r, rings'[r].cell[c].idx, q, rings'[q].cell[d].idx)
    <3>1. Stays(r, c)
      BY <2>1, <2>3, Origin DEF Filled, Linked
    <3>2. rings[r].cell[c].val = u /\ rings[r].cell[c].idx = rings'[r].cell[c].idx /\ r \in 1..Len(rings)
      BY <2>3, <3>1 DEF Stays
    <3> DEFINE i == rings[r].cell[c].idx
    <3>3. i < rings[r].tail /\ i \in Nat /\ rings[r].tail \in Nat
      BY <1>1, <2>1, <3>2, RingFacts DEF RingsOK
    <3>4. ASSUME NEW w \in Enqueuer, arg'[w] = v, Drawn(w)'
          PROVE  Less(r, i, my'[w].rq, my'[w].index)
      <4>1. CASE w # t
        BY <1>1, <1>2, <1>4, <3>2, <3>4, <4>1 DEF OrderOK, Drawn
      <4>2. CASE w = t /\ StillDrawn(t)
        BY <1>1, <1>4, <3>2, <3>4, <4>2 DEF OrderOK, StillDrawn
      <4>3. CASE w = t /\ NowDrawn(t)
        <5>1. my[t].rq \in 1..Len(rings) /\ ~rings[my[t].rq].closed
          BY <1>1, <4>3, LocalsTyped DEF NowDrawn, Ring
        <5>2. my[t].rq = Len(rings)
          BY <1>1, <5>1 DEF RingsOK
        <5> QED
          BY <1>1, <3>2, <3>3, <4>3, <5>2 DEF NowDrawn, Less, Ring
      <4> QED
        BY <3>4, <4>1, <4>2, <4>3 DEF Positions
    <3>5. ASSUME NEW q \in 1..Len(rings'), NEW d \in Slot, rings'[q].cell[d].val = v
          PROVE  Less(r, i, q, rings'[q].cell[d].idx)
      <4>1. CASE Stays(q, d)
        BY <1>1, <1>4, <3>2, <3>5, <4>1 DEF OrderOK, Stays
      <4>2. CASE Filled(t, q, d)
        <5>1. arg[t] = v /\ Drawn(t) /\ t \in Enqueuer
          BY <3>5, <4>2 DEF Filled, Filling, Drawn
        <5>2. Less(r, i, my[t].rq, my[t].index)
          BY <1>1, <1>4, <3>2, <5>1 DEF OrderOK
        <5> QED
          BY <4>2, <5>2 DEF Filled
      <4>3. CASE Linked(t, q, d)
        BY <1>1, <3>2, <4>3 DEF Linked, Less
      <4> QED
        BY <2>1, <3>5, <4>1, <4>2, <4>3, Origin
    <3> QED
      BY <3>2, <3>4, <3>5
  <2> QED
    BY <2>2, <2>3
<1>5. ASSUME NEW u \in Value, NEW v \in Value, <<u, v>> \notin before, <<u, v>> \in before'
      PROVE  /\ u \in put' /\ v \in put'
             /\ \A w \in Enqueuer : arg'[w] # u
             /\ \A w \in Enqueuer : ~(arg'[w] = v /\ Drawn(w)')
             /\ \A q \in 1..Len(rings'), d \in Slot : rings'[q].cell[d].val # v
  <2>1. /\ t \in Enqueuer /\ arg'[t] = v /\ v \notin put /\ v \in put' /\ u \in Added /\ UNCHANGED rings
    BY <1>5 DEF Arguments
  <2>2. PICK r \in 1..Len(rings), c \in Slot : rings[r].cell[c].val = u
    BY <2>1 DEF Added, Undrawn, InRing
  <2>3. u \in put /\ u # EMPTY
    BY <1>1, <1>3, <2>2 DEF PlacesOK
  <2>4. ASSUME NEW w \in Enqueuer, arg'[w] = u PROVE FALSE
    <3>1. w # t /\ arg[w] = u
      BY <1>2, <2>1, <2>3, <2>4
    <3>2. pc[w] = "enq_swing"
      BY <1>1, <2>2, <2>3, <3>1 DEF PlacesOK
    <3> QED
      BY <2>1, <3>1, <3>2 DEF Added, Adding
  <2>5. ASSUME NEW w \in Enqueuer, arg'[w] = v, Drawn(w)' PROVE FALSE
    <3>1. CASE w = t
      <4>1. arg'[t] = arg[t]
        BY <2>1, <2>5, <3>1 DEF Positions, StillDrawn, NowDrawn
      <4> QED
        BY <1>1, <1>3, <2>1, <4>1 DEF PlacesOK
    <3>2. CASE w # t
      BY <1>1, <1>2, <1>3, <2>1, <2>5, <3>2 DEF PlacesOK
    <3> QED
      BY <3>1, <3>2
  <2>6. \A q \in 1..Len(rings'), d \in Slot : rings'[q].cell[d].val # v
    BY <1>1, <1>3, <2>1 DEF PlacesOK
  <2> QED
    BY <2>1, <2>3, <2>4, <2>5, <2>6 DEF Arguments
<1> QED
  BY <1>4, <1>5 DEF OrderOK

-----------------------------------------------------------------------------
(* Abandoned indices *)

(* How dequeue stops waiting for an index, and how enqueue comes to fill a cell
   that it saw unsafe. *)
Leaving(t) ==
  /\ t \in Dequeuer /\ pc[t] \in Waiting /\ pc'[t] \notin Waiting =>
       \/ Taking(t) \/ Marking(t) \/ Skipping(t)
       \/ Cell(t).idx > my[t].index /\ UNCHANGED rings
  /\ t \in Dequeuer /\ Reaching(t) => pc'[t] \in Waiting /\ NowWaiting(t)
  /\ t \in Enqueuer /\ pc'[t] = "enq_cas" /\ my'[t].seen.unsafe =>
       /\ UNCHANGED rings /\ Ring(t).head < my[t].index
       /\ my'[t].rq = my[t].rq /\ my'[t].index = my[t].index

LEMMA EnqueueLeaving ==
  ASSUME LCRQInv, NEW t \in Enqueuer, Enqueuing(t) \/ \E v \in Value : EnqueueCall(t, v)
  PROVE  Leaving(t)
<1>1. AllTypes /\ t \in Thread /\ t \notin Dequeuer
  BY LCRQAssumption DEF LCRQInv, Thread
<1>2. /\ my \in [Thread -> LocalType] /\ my[t] \in LocalType /\ my[t].seen \in CellType
      /\ pc \in [Thread -> EnqueueLabel \cup DequeueLabel \cup {"idle", "got"}]
  BY <1>1, LocalsTyped DEF AllTypes, LocalType
<1>3. ASSUME EnqueueVal(t), pc'[t] = "enq_cas" PROVE ~my'[t].seen.unsafe
  <2>1. my'[t].seen.unsafe = my[t].seen.unsafe
    BY <1>1, <1>2, <1>3 DEF EnqueueVal, ReadVal, LocalType, CellType
  <2>2. ~my[t].seen.unsafe
    BY <1>1, <1>2, <1>3 DEF EnqueueVal, EnqueueGoes, Goto, Fill
  <2> QED
    BY <2>1, <2>2
<1>4. ASSUME EnqueueHead(t), pc'[t] = "enq_cas"
      PROVE  UNCHANGED rings /\ Ring(t).head < my[t].index /\ my'[t].rq = my[t].rq /\ my'[t].index = my[t].index
  BY <1>1, <1>2, <1>4 DEF EnqueueHead, EnqueueGoes, Goto, shared
<1>5. ASSUME ~EnqueueVal(t), ~EnqueueHead(t) PROVE pc'[t] # "enq_cas"
  BY <1>1, <1>2, <1>5 DEF Enqueuing, EnqueueTail, EnqueueNext, EnqueueHelp, EnqueueDraw, EnqueueIdx,
              EnqueueCas, EnqueueFull, EnqueueClose, EnqueueLink, EnqueueSwing, EnqueueCall, EnqueueGoes,
              EnqueueReturn, Goto
<1> QED
  BY <1>1, <1>3, <1>4, <1>5 DEF Leaving

LEMMA DequeueLeaving ==
  ASSUME LCRQInv, NEW t \in Dequeuer, Dequeuing(t) \/ DequeueCall(t)
  PROVE  Leaving(t)
<1> USE DEF Waiting
<1>1. AllTypes /\ DequeuerOK(t) /\ t \in Thread /\ t \notin Enqueuer
  BY LCRQAssumption DEF LCRQInv, Thread
<1>2. /\ my \in [Thread -> LocalType] /\ my[t] \in LocalType /\ my[t].seen \in CellType /\ my[t].seen.idx \in Nat
      /\ pc \in [Thread -> EnqueueLabel \cup DequeueLabel \cup {"idle", "got"}]
      /\ my[t].rq \in 1..Len(rings) /\ my[t].index \in Nat /\ Cell(t).idx \in Nat
  BY <1>1, LocalsTyped DEF AllTypes, LocalType, CellType
<1>3. ASSUME Reaching(t) PROVE pc'[t] \in Waiting /\ NowWaiting(t)
  <2>1. DequeueDraw(t)
    BY <1>3 DEF Reaching, Dequeuing, DequeueCall, DequeueHead, DequeueIdx, DequeueVal, DequeueLook,
              DequeueTake, DequeueMark, DequeueSkip, DequeueClose, DequeueTest, FixTail, FixHead, FixCas,
              DequeueNext, DequeueAgain, DequeueSwing, DequeueReturn
  <2>2. my'[t].rq = my[t].rq /\ my'[t].index = Ring(t).head /\ pc'[t] = "deq_idx"
    BY <1>1, <1>2, <2>1 DEF DequeueDraw, Goto, LocalType
  <2> QED
    BY <1>3, <2>2 DEF NowWaiting
<1>4. ASSUME DequeueVal(t), pc'[t] \notin Waiting PROVE Cell(t).idx > my[t].index /\ UNCHANGED rings
  <2>1. my[t].seen.idx > my[t].index
    BY <1>1, <1>2, <1>4 DEF DequeueVal, SkipOrWait, Goto
  <2>2. my[t].seen.idx <= Cell(t).idx
    BY <1>1, <1>4 DEF DequeueVal, DequeuerOK
  <2> QED
    BY <1>2, <1>4, <2>1, <2>2 DEF DequeueVal, shared
<1>5. ASSUME DequeueTake(t) \/ DequeueMark(t) \/ DequeueSkip(t), pc'[t] \notin Waiting
      PROVE  Taking(t) \/ Marking(t) \/ Skipping(t)
  BY <1>5, CellSteps
<1>6. ASSUME DequeueLook(t) \/ DequeueDraw(t) \/ DequeueIdx(t) PROVE pc'[t] \in Waiting
  BY <1>1, <1>2, <1>6 DEF DequeueLook, SkipOrWait, DequeueDraw, DequeueIdx, Goto
<1>7. ASSUME \/ DequeueHead(t) \/ DequeueClose(t) \/ DequeueTest(t) \/ FixTail(t) \/ FixHead(t) \/ FixCas(t)
             \/ DequeueNext(t) \/ DequeueAgain(t) \/ DequeueSwing(t) \/ DequeueReturn(t) \/ DequeueCall(t)
      PROVE  pc[t] \notin Waiting
  BY <1>7 DEF DequeueHead, DequeueClose, DequeueTest, FixTail, FixHead, FixCas, DequeueNext,
        DequeueAgain, DequeueSwing, DequeueReturn, DequeueCall
<1>8. ASSUME pc[t] \in Waiting, pc'[t] \notin Waiting
      PROVE  Taking(t) \/ Marking(t) \/ Skipping(t) \/ (Cell(t).idx > my[t].index /\ UNCHANGED rings)
  BY <1>4, <1>5, <1>6, <1>7, <1>8 DEF Dequeuing
<1> QED
  BY <1>1, <1>3, <1>8 DEF Leaving

(* A cell changes by the compare-and-swap of the thread that steps. *)
LEMMA CellStays ==
  ASSUME LCRQInv, NEW t \in Thread, Effect(t), NEW r \in 1..Len(rings), NEW c \in Slot
  PROVE  \/ rings'[r].cell[c] = rings[r].cell[c]
         \/ /\ Filling(t) \/ Taking(t) \/ Marking(t) \/ Skipping(t)
            /\ r = my[t].rq /\ c = my[t].index % RingSize
<1>1. AllTypes /\ RingStep(t)
  BY DEF LCRQInv, Effect
<1>2. CASE Filling(t) \/ Taking(t) \/ Marking(t) \/ Skipping(t)
  BY <1>1, <1>2, CellGetsIs DEF Filling, Taking, Marking, Skipping
<1>3. CASE UNCHANGED rings \/ Drawing(t) \/ Reaching(t) \/ Closing(t) \/ Fixed(t)
  BY <1>3 DEF Drawing, Reaching, Closing, Fixed, EndsBecome
<1>4. CASE Linking(t)
  BY <1>4 DEF Linking, RingLinked
<1> QED
  BY <1>1, <1>2, <1>3, <1>4 DEF RingStep

LEMMA StepAbandonedOK ==
  ASSUME LCRQInv, NEW t \in Thread, Effect(t), Positions(t), Leaving(t)
  PROVE  AbandonedOK'
<1>1. /\ AllTypes /\ AbandonedOK /\ Grown /\ AllTypes'
      /\ (\A u \in Enqueuer : EnqueuerOK(u) /\ u \in Thread) /\ \A u \in Dequeuer : DequeuerOK(u) /\ u \in Thread
      /\ Len(rings) \in Nat /\ Len(rings') \in Nat /\ RingSize \in Nat \ {0}
  BY LCRQAssumption DEF LCRQInv, Effect, Thread, AllTypes
<1>2. \A u \in Thread \ {t} : pc'[u] = pc[u] /\ my'[u] = my[u]
  BY DEF Effect, OnlyMe
<1>3. /\ my[t].rq \in 1..Len(rings) /\ my[t].index \in Nat /\ my[t].index % RingSize \in Slot
      /\ Cell(t) \in CellType /\ Cell(t).idx \in Nat
  BY <1>1, LocalsTyped DEF CellType
<1> SUFFICES ASSUME NEW r \in 1..Len(rings'), NEW i \in Nat, Abandoned(r, i)'
             PROVE  Unfillable(r, i, i % RingSize)'
  BY DEF AbandonedOK
<1>c. PICK c : c = i % RingSize
  OBVIOUS
<1> DEFINE old == rings[r].cell[c]
           new == rings'[r].cell[c]
<1>4. r \in 1..Len(rings)
  <2>1. CASE r \notin 1..Len(rings)
    <3>1. Linking(t) /\ t \in Enqueuer /\ r = Len(rings) + 1
      <4>1. Len(rings') # Len(rings)
        BY <1>1, <2>1
      <4>2. Linking(t) /\ t \in Enqueuer
        BY <1>1, <4>1, CellGetsIs DEF Effect, RingStep, EndsBecome, Drawing, Reaching, Closing, Fixed, Filling,
              Taking, Marking, Skipping
      <4> QED
        BY <1>1, <2>1, <4>2 DEF Linking, RingLinked
    <3>2. rings'[r].head = 0
      BY <3>1 DEF Linking, RingLinked, NewRing, EmptyRing
    <3> QED
      BY <3>2 DEF Abandoned
  <2> QED
    BY <2>1
<1>5. c \in Slot /\ old \in CellType /\ new \in CellType /\ old.idx \in Nat /\ new.idx \in Nat /\ old.idx <= new.idx
      /\ rings[r].head \in Nat
  <2>1. c \in Slot
    BY <1>c, SlotOf
  <2>2. rings'[r] \in RingType /\ rings[r] \in RingType
    BY <1>1, <1>4 DEF AllTypes
  <2>3. old \in CellType /\ new \in CellType /\ rings[r].head \in Nat
    BY <2>1, <2>2 DEF RingType
  <2> QED
    BY <1>1, <1>4, <2>1, <2>3 DEF Grown, CellType
<1>6. old = new \/ /\ Filling(t) \/ Taking(t) \/ Marking(t) \/ Skipping(t)
                   /\ r = my[t].rq /\ c = my[t].index % RingSize
  BY <1>4, <1>5, CellStays
<1>7. r = my[t].rq /\ c = my[t].index % RingSize => old = Cell(t) /\ new = NewCell(t)
  BY DEF Cell, Ring, NewCell
<1> SUFFICES Unfillable(r, i, c)'
  BY <1>c
<1> HIDE DEF old, new
<1>8. Marking(t) /\ r = my[t].rq /\ c = my[t].index % RingSize => new.unsafe /\ new.val # EMPTY
  BY <1>7 DEF Marking, CellGets
<1>9. (Taking(t) \/ Skipping(t)) /\ r = my[t].rq /\ c = my[t].index % RingSize =>
        new.idx = my[t].index + RingSize /\ new.unsafe = old.unsafe /\ old.idx <= my[t].index
  BY <1>3, <1>7 DEF Taking, Skipping, CellGets
(* what an enqueuer has to find *)
<1> DEFINE Fails(u) == my'[u].index > i \/ new.idx > my'[u].seen.idx \/ new.val # EMPTY
           Tries(u) == /\ pc'[u] = "enq_cas" /\ my'[u].seen.unsafe
                       /\ my'[u].rq = r /\ my'[u].index % RingSize = c
<1>u. ASSUME new.unsafe, \A u \in Enqueuer : Tries(u) => Fails(u)
      PROVE  Unfillable(r, i, c)'
  <2>1. \A u \in Enqueuer : Misses(u, r, i, c)'
    <3>1. SUFFICES ASSUME NEW u \in Enqueuer PROVE Misses(u, r, i, c)'
      OBVIOUS
    <3>2. Tries(u) => Fails(u)
      BY <1>u
    <3> QED
      BY <3>2 DEF Misses, new
  <2> QED
    BY <1>u, <2>1 DEF Unfillable, new
<1> SUFFICES new.idx > i \/ (new.unsafe /\ \A u \in Enqueuer : Tries(u) => Fails(u))
  BY <1>u DEF Unfillable, new
<1>10. CASE Abandoned(r, i)
  <2>1. CASE old.idx > i
    <3>1. new.idx > i
      BY <1>5, <2>1
    <3> QED
      BY <3>1
  <2>2. CASE ~(old.idx > i)
    <3>1. /\ old.unsafe
          /\ \A u \in Enqueuer :
               pc[u] = "enq_cas" /\ my[u].seen.unsafe /\ my[u].rq = r /\ my[u].index % RingSize = c =>
                 my[u].index > i \/ old.idx > my[u].seen.idx \/ old.val # EMPTY
      <4>1. Unfillable(r, i, c)
        BY <1>1, <1>4, <1>10, <1>c DEF AbandonedOK
      <4> QED
        BY <2>2, <4>1 DEF Unfillable, Misses, old
    <3>2. i < rings[r].head
      BY <1>10 DEF Abandoned
    <3>3. ASSUME NEW u \in Enqueuer, u # t, Tries(u) PROVE my[u].seen.idx <= old.idx /\ my[u].seen.idx \in Nat /\ my'[u] = my[u]
      <4>1. pc[u] = "enq_cas" /\ my[u].rq = r /\ my[u].index % RingSize = c /\ my'[u] = my[u]
        BY <1>1, <1>2, <3>3
      <4>2. my[u].seen.idx <= Cell(u).idx /\ Cell(u) = old
        BY <1>1, <4>1 DEF EnqueuerOK, Cell, Ring, old
      <4>3. my[u].seen.idx \in Nat
        BY <1>1, LocalsTyped DEF LocalType, CellType
      <4> QED
        BY <4>1, <4>2, <4>3
    <3>4. CASE old = new
      <4>1. new.unsafe
        BY <3>1, <3>4
      <4>2. ASSUME NEW u \in Enqueuer, Tries(u) PROVE Fails(u)
        <5>1. CASE u # t
          BY <1>1, <1>2, <3>1, <3>4, <4>2, <5>1
        <5>2. CASE u = t
          <6>1. Ring(t).head < my[t].index /\ my'[t].rq = my[t].rq /\ my'[t].index = my[t].index
            BY <4>2, <5>2 DEF Leaving
          <6>2. rings[r].head < my[t].index
            BY <4>2, <5>2, <6>1 DEF Ring
          <6> QED
            BY <1>3, <1>5, <3>2, <5>2, <6>1, <6>2
        <5> QED
          BY <5>1, <5>2
      <4> QED
        BY <4>1, <4>2
    <3>5. CASE Filling(t) /\ r = my[t].rq /\ c = my[t].index % RingSize
      <4>1. t \in Enqueuer /\ pc[t] = "enq_cas" /\ old = my[t].seen /\ old.val = EMPTY /\ new.idx = my[t].index
        <5>1. t \notin Dequeuer
          BY <1>1, <3>5 DEF Filling, AllTypes, DequeueLabel, Waiting
        <5> QED
          BY <1>7, <3>5, <5>1 DEF Filling, CellGets, Thread
      <4>2. my[t].index > i \/ old.idx > old.idx
        BY <3>1, <3>5, <4>1
      <4>3. new.idx > i
        BY <1>5, <4>1, <4>2
      <4> QED
        BY <4>3
    <3>6. CASE (Taking(t) \/ Marking(t) \/ Skipping(t)) /\ r = my[t].rq /\ c = my[t].index % RingSize
      <4>1. new.unsafe
        BY <1>8, <1>9, <3>1, <3>6
      <4>2. ASSUME NEW u \in Enqueuer, Tries(u) PROVE Fails(u)
        <5>1. u # t
          <6>1. t \in Dequeuer
            BY <1>1, <3>6 DEF Taking, Marking, Skipping, AllTypes, EnqueueLabel, Thread
          <6> QED
            BY <6>1, LCRQAssumption
        <5>2. my[u].seen.idx <= old.idx /\ my[u].seen.idx \in Nat /\ my'[u] = my[u]
          BY <3>3, <4>2, <5>1
        <5> QED
          BY <1>1, <1>3, <1>5, <1>8, <1>9, <3>6, <5>2
      <4> QED
        BY <4>1, <4>2
    <3> QED
      BY <1>6, <3>4, <3>5, <3>6
  <2> QED
    BY <2>1, <2>2
<1>11. CASE ~Abandoned(r, i)
  <2>1. i < rings[r].head
    <3>1. CASE Reaching(t) /\ t \in Dequeuer
      <4>1. NowWaiting(t) /\ pc'[t] \in Waiting
        BY <3>1 DEF Leaving
      <4>2. rings'[r].head = IF r = my[t].rq THEN Ring(t).head + 1 ELSE rings[r].head
        BY <1>4, <3>1 DEF Reaching, EndsBecome
      <4>3. r = my[t].rq => i # Ring(t).head
        BY <3>1, <4>1 DEF NowWaiting, Abandoned
      <4>4. i < rings'[r].head
        BY DEF Abandoned
      <4> QED
        BY <1>5, <4>2, <4>3, <4>4 DEF Ring
    <3>2. CASE ~(Reaching(t) /\ t \in Dequeuer)
      <4>1. rings'[r].head = rings[r].head
        BY <1>1, <1>4, <3>2, CellGetsIs DEF Effect, RingStep, EndsBecome, Drawing, Closing, Fixed, Filling,
              Taking, Marking, Skipping, Linking, RingLinked, Ring
      <4> QED
        BY <4>1 DEF Abandoned
    <3> QED
      BY <3>1, <3>2
  <2>2. PICK d \in Dequeuer : pc[d] \in Waiting /\ my[d].rq = r /\ my[d].index = i
    BY <1>11, <2>1 DEF Abandoned
  <2>3. ~(pc'[d] \in Waiting /\ my'[d].rq = r /\ my'[d].index = i)
    BY DEF Abandoned
  <2>4. d = t
    BY <1>1, <1>2, <2>2, <2>3
  <2>5. pc'[t] \notin Waiting
    <3>1. ~NowWaiting(t)
      BY <2>2, <2>4 DEF NowWaiting, Reaching, Waiting
    <3> QED
      BY <2>2, <2>3, <2>4, <3>1 DEF Positions, StillWaiting
  <2>6. /\ r = my[t].rq /\ c = my[t].index % RingSize /\ i = my[t].index
        /\ \/ Taking(t) \/ Marking(t) \/ Skipping(t)
           \/ Cell(t).idx > my[t].index /\ UNCHANGED rings
    BY <1>c, <2>2, <2>4, <2>5 DEF Leaving
  <2>7. CASE Cell(t).idx > my[t].index /\ UNCHANGED rings
    <3>1. new.idx > i
      BY <1>7, <2>6, <2>7 DEF new, old
    <3> QED
      BY <3>1
  <2>8. CASE Taking(t) \/ Skipping(t)
    <3>1. new.idx > i
      BY <1>1, <1>9, <2>6, <2>8
    <3> QED
      BY <3>1
  <2>9. CASE Marking(t)
    <3>1. new.unsafe /\ new.val # EMPTY
      BY <1>8, <2>6, <2>9
    <3> QED
      BY <3>1
  <2> QED
    BY <2>6, <2>7, <2>8, <2>9
<1> QED
  BY <1>10, <1>11

-----------------------------------------------------------------------------
(* The invariant *)

LEMMA InitInv == Init => LCRQInv
<1> SUFFICES ASSUME Init PROVE LCRQInv
  OBVIOUS
<1>1. AllTypes
  BY InitTypes
<1>2. /\ Len(rings) = 1 /\ rings[1] = EmptyRing /\ head = 1 /\ \A r \in 1..Len(rings) : r = 1
      /\ \A t \in Thread : pc[t] = "idle" /\ my[t].rq = 1
      /\ \A t \in Enqueuer : t \in Thread /\ arg[t] = EMPTY
      /\ \A t \in Dequeuer : t \in Thread
      /\ before = {} /\ EMPTY \notin Value
  BY LCRQAssumption DEF Init, Thread, NoLocals
<1>3. EmptyRing.head = 0 /\ \A c \in Slot : EmptyRing.cell[c].val = EMPTY
  BY DEF EmptyRing
<1>4. RingsOK
  BY <1>2, <1>3 DEF RingsOK
<1>5. (\A t \in Enqueuer : EnqueuerOK(t)) /\ DistinctOK /\ PlacesOK
  BY <1>2, <1>3 DEF EnqueuerOK, DistinctOK, PlacesOK, Drawn, Waiting
<1>6. \A t \in Dequeuer : DequeuerOK(t)
  BY <1>2 DEF DequeuerOK, Waiting, Fixing
<1>7. FinishedOK /\ OrderOK
  BY <1>2 DEF FinishedOK, OrderOK
<1>8. AbandonedOK
  BY <1>2, <1>3 DEF AbandonedOK, Abandoned
<1> QED
  BY <1>1, <1>4, <1>5, <1>6, <1>7, <1>8 DEF LCRQInv

LEMMA StepInv == LCRQInv /\ [Next]_vars => LCRQInv'
<1> SUFFICES ASSUME LCRQInv, [Next]_vars PROVE LCRQInv'
  OBVIOUS
<1>1. CASE UNCHANGED vars
  <2>1. UNCHANGED <<rings, head, tail, pc, arg, my, put, before, wasEmpty>>
    BY <1>1 DEF vars, shared, history
  <2>2. AllTypes' /\ RingsOK' /\ DistinctOK' /\ PlacesOK' /\ OrderOK'
    BY <2>1 DEF LCRQInv, AllTypes, RingsOK, DistinctOK, PlacesOK, OrderOK, Drawn
  <2>3. FinishedOK'
    BY <2>1 DEF LCRQInv, FinishedOK, Finished, Drawn
  <2>4. ASSUME NEW r \in 1..Len(rings'), NEW i \in Nat, Abandoned(r, i)' PROVE Unfillable(r, i, i % RingSize)'
    <3>1. Abandoned(r, i)
      BY <2>1, <2>4 DEF Abandoned
    <3>2. Unfillable(r, i, i % RingSize)
      BY <2>1, <3>1 DEF LCRQInv, AbandonedOK
    <3> QED
      BY <2>1, <3>2 DEF Unfillable, Misses
  <2>5. \A t \in Enqueuer : EnqueuerOK(t)'
    BY <2>1 DEF LCRQInv, EnqueuerOK, Drawn, Cell, Ring
  <2>6. \A t \in Dequeuer : DequeuerOK(t)'
    BY <2>1 DEF LCRQInv, DequeuerOK, Cell, Ring, IsLast
  <2>7. AbandonedOK'
    BY <2>4 DEF AbandonedOK
  <2> QED
    BY <2>2, <2>3, <2>5, <2>6, <2>7 DEF LCRQInv
<1>2. ASSUME NEW t \in Thread, Effect(t), Positions(t), Swinging(t), Arguments(t), Leaving(t), Remember,
             t \in Enqueuer => EnqueuerOK(t)', t \in Dequeuer => DequeuerOK(t)'
      PROVE  LCRQInv'
  <2>1. AllTypes' /\ RingsOK' /\ DistinctOK' /\ FinishedOK' /\ PlacesOK' /\ AbandonedOK' /\ OrderOK'
    BY <1>2, StepRingsOK, StepDistinctOK, StepFinishedOK, StepPlacesOK, StepAbandonedOK, StepOrderOK DEF Effect
  <2>2. \A u \in Enqueuer : EnqueuerOK(u)'
    BY <1>2, EnqueuersKnow
  <2>3. \A u \in Dequeuer : DequeuerOK(u)'
    BY <1>2, DequeuersKnow
  <2> QED
    BY <2>1, <2>2, <2>3 DEF LCRQInv
<1>3. ASSUME NEW t \in Enqueuer, Enqueuing(t) \/ \E v \in Value : EnqueueCall(t, v), Remember PROVE LCRQInv'
  <2>1. t \in Thread /\ t \notin Dequeuer
    BY LCRQAssumption DEF Thread
  <2>2. Effect(t) /\ Positions(t) /\ Swinging(t) /\ Arguments(t) /\ Leaving(t) /\ EnqueuerOK(t)'
    BY <1>3, EnqueueEffect, EnqueuePositions, EnqueueSwinging, EnqueueArguments, EnqueueLeaving, EnqueuerLearns
  <2> QED
    BY <1>2, <1>3, <2>1, <2>2
<1>4. ASSUME NEW t \in Dequeuer, Dequeuing(t) \/ DequeueCall(t), UNCHANGED <<arg, history>>, Remember PROVE LCRQInv'
  <2>1. t \in Thread /\ t \notin Enqueuer
    BY LCRQAssumption DEF Thread
  <2>2. Effect(t)
    BY <1>4, DequeueEffect
  <2>3. Positions(t) /\ Swinging(t) /\ Arguments(t) /\ Leaving(t) /\ DequeuerOK(t)'
    BY <1>4, <2>2, DequeuePositions, DequeueSwinging, DequeueArguments, DequeueLeaving, DequeuerLearns
  <2> QED
    BY <1>2, <1>4, <2>1, <2>2, <2>3
<1>5. CASE Next
  <2>1. CASE \E t \in Enqueuer : EnqueueStep(t) \/ (\E v \in Value : EnqueueCall(t, v) /\ Remember)
    BY <1>3, <2>1 DEF EnqueueStep
  <2>2. CASE \E t \in Dequeuer : DequeueStep(t) \/ (DequeueCall(t) /\ UNCHANGED <<arg, history>> /\ Remember)
    BY <1>4, <2>2 DEF DequeueStep, Dequeuing
  <2> QED
    BY <1>5, <2>1, <2>2 DEF Next
<1> QED
  BY <1>1, <1>5

(* lcrq.c keeps LCRQInv, for any number of threads, any size of the rings and
   any patience. *)
THEOREM LCRQKeepsInv == Spec => []LCRQInv
  BY InitInv, StepInv, PTL DEF Spec

(* Rings, cells and locals have their types, and a cell holds indices of its
   own slot only. *)
THEOREM LCRQTypes == Spec => []LCRQTypeOK
<1>1. ASSUME LCRQInv PROVE LCRQTypeOK
  <2>1. AllTypes
    BY <1>1 DEF LCRQInv
  <2>2. ASSUME NEW r \in 1..Len(rings) PROVE rings[r] \in RingType
    BY <2>1 DEF AllTypes
  <2>3. ASSUME NEW t \in Thread PROVE my[t] \in LocalType
    BY <2>1 DEF AllTypes
  <2> QED
    BY <2>1, <2>2, <2>3 DEF AllTypes, LCRQTypeOK, RingType, LocalType
<1> QED
  BY <1>1, LCRQKeepsInv, PTL

(* The rings before head are closed and empty, and no enqueue can still fill a
   cell of them: the second test of tail in dequeue (lcrq.c:377) suffices. *)
THEOREM NothingIsLeftBehind == Spec => []NothingBehind
<1>1. ASSUME LCRQInv PROVE NothingBehind
  <2>1. ASSUME NEW r \in 1..head - 1
        PROVE  /\ rings[r].closed /\ InRing(r) = {}
               /\ \A t \in Enqueuer :
                    pc[t] \in {"enq_idx", "enq_val", "enq_head", "enq_cas"} /\ my[t].rq = r =>
                      my[t].index < rings[r].head
    <3>1. AllTypes /\ Finished(r) /\ r \in 1..Len(rings)
      BY <1>1, <2>1 DEF LCRQInv, FinishedOK, AllTypes
    <3>2. ASSUME NEW c \in Slot, rings[r].cell[c].idx >= rings[r].head PROVE rings[r].cell[c].val = EMPTY
      BY <3>1, <3>2, RingFacts DEF Finished
    <3> QED
      BY <3>1, <3>2 DEF Finished, InRing, Drawn
  <2> QED
    BY <2>1 DEF NothingBehind
<1> QED
  BY <1>1, LCRQKeepsInv, PTL

(* dequeue returns -1 only if the queue held no completed put at some moment of
   the call. *)
THEOREM EmptyAnswerIsHonest == Spec => []EmptyIsHonest
<1>1. LCRQInv => EmptyIsHonest
  BY DEF LCRQInv, DequeuerOK, EmptyIsHonest
<1> QED
  BY <1>1, LCRQKeepsInv, PTL

-----------------------------------------------------------------------------
(* What is left to take *)

(* Cell c of ring r holds a value, and no dequeuer has drawn the index. *)
Waits(r, c) == rings[r].cell[c].val # EMPTY /\ rings[r].cell[c].idx >= rings[r].head

LEMMA UndrawnIs ==
  /\ \A v : v \in Undrawn <=> \E r \in 1..Len(rings), c \in Slot : Waits(r, c) /\ rings[r].cell[c].val = v
  /\ \A v : v \in Undrawn' <=> \E r \in 1..Len(rings'), c \in Slot : Waits(r, c)' /\ rings'[r].cell[c].val = v
  BY DEF Undrawn, InRing, Waits

LEMMA UndrawnStays ==
  ASSUME Len(rings') = Len(rings),
         \A r \in 1..Len(rings), c \in Slot :
           /\ Waits(r, c)' <=> Waits(r, c)
           /\ Waits(r, c) => rings'[r].cell[c].val = rings[r].cell[c].val
  PROVE  Undrawn' = Undrawn
<1>1. \A v : v \in Undrawn' <=> v \in Undrawn
  BY UndrawnIs
<1> QED
  BY <1>1

(* The steps that leave it as it is: all but the draw of a dequeuer, the
   filling of a cell whose index is still to be drawn, and the link. *)
LEMMA UndrawnKept ==
  ASSUME LCRQInv, NEW t \in Thread, Effect(t),
         \/ UNCHANGED rings \/ Drawing(t) \/ Closing(t) \/ Fixed(t)
         \/ t \in Dequeuer /\ (Taking(t) \/ Marking(t) \/ Skipping(t))
         \/ t \in Enqueuer /\ Filling(t) /\ my[t].index < Ring(t).head
  PROVE  Undrawn' = Undrawn
<1>1. AllTypes /\ (t \in Dequeuer => DequeuerOK(t))
  BY DEF LCRQInv
<1>2. CASE UNCHANGED rings
  BY <1>2 DEF Undrawn, InRing
<1>3. CASE Drawing(t) \/ Closing(t) \/ Fixed(t)
  <2>1. /\ Len(rings') = Len(rings)
        /\ \A r \in 1..Len(rings) : rings'[r].cell = rings[r].cell /\ rings'[r].head = rings[r].head
    BY <1>3 DEF Drawing, Closing, Fixed, EndsBecome, Ring
  <2> QED
    BY <2>1, UndrawnStays DEF Waits
<1> DEFINE q == my[t].rq
           e == my[t].index % RingSize
<1>4. ASSUME NEW i, NEW v, CellGets(t, i, v),
             rings[q].cell[e].val # EMPTY /\ rings[q].cell[e].idx >= rings[q].head <=> v # EMPTY /\ i >= rings[q].head,
             rings[q].cell[e].val # EMPTY /\ rings[q].cell[e].idx >= rings[q].head => v = rings[q].cell[e].val
      PROVE  Undrawn' = Undrawn
  <2>1. /\ Len(rings') = Len(rings)
        /\ \A r \in 1..Len(rings) :
             /\ rings'[r].head = rings[r].head
             /\ \A c \in Slot : ~(r = q /\ c = e) => rings'[r].cell[c] = rings[r].cell[c]
        /\ rings'[q].cell[e].idx = i /\ rings'[q].cell[e].val = v
    <3>1. CellGets(t, i, v)
      BY <1>4
    <3> QED
      BY <1>1, <3>1, CellGetsIs DEF NewCell
  <2> HIDE DEF q, e
  <2>2. ASSUME NEW r \in 1..Len(rings), NEW c \in Slot
        PROVE  /\ Waits(r, c)' <=> Waits(r, c)
               /\ Waits(r, c) => rings'[r].cell[c].val = rings[r].cell[c].val
    <3>1. CASE r = q /\ c = e
      BY <1>4, <2>1, <3>1 DEF Waits
    <3>2. CASE ~(r = q /\ c = e)
      BY <2>1, <3>2 DEF Waits
    <3> QED
      BY <3>1, <3>2
  <2> QED
    BY <2>1, <2>2, UndrawnStays
<1>5. Cell(t) = rings[q].cell[e] /\ Ring(t) = rings[q] /\ rings[q].head \in Nat /\ my[t].index \in Nat
  BY <1>1, LocalsTyped, RingFacts DEF Cell, Ring
<1> HIDE DEF q, e
<1>6. CASE t \in Dequeuer /\ Taking(t)
  <2>1. my[t].index < rings[q].head
    BY <1>1, <1>5, <1>6 DEF Taking, DequeuerOK, Waiting
  <2>2. CellGets(t, my[t].index + RingSize, EMPTY) /\ Cell(t).idx = my[t].index
    BY <1>6 DEF Taking
  <2>3. ~(rings[q].cell[e].idx >= rings[q].head)
    BY <1>5, <2>1, <2>2
  <2> QED
    BY <1>4, <2>2, <2>3
<1>7. CASE t \in Dequeuer /\ Marking(t)
  BY <1>4, <1>5, <1>7 DEF Marking
<1>8. CASE t \in Dequeuer /\ Skipping(t)
  BY <1>4, <1>5, <1>8 DEF Skipping
<1>9. CASE t \in Enqueuer /\ Filling(t) /\ my[t].index < Ring(t).head
  BY <1>4, <1>5, <1>9 DEF Filling
<1> QED
  BY <1>2, <1>3, <1>6, <1>7, <1>8, <1>9

(* The steps that add a value. *)
LEMMA UndrawnGains ==
  ASSUME LCRQInv, NEW t \in Enqueuer, Effect(t), Linking(t) \/ (Filling(t) /\ my[t].index >= Ring(t).head)
  PROVE  Undrawn' = Undrawn \cup {arg[t]} /\ arg[t] \notin Undrawn
<1>1. AllTypes /\ t \in Thread /\ PlacesOK /\ EMPTY \notin Value
  BY LCRQAssumption DEF LCRQInv, Thread
<1>2. arg[t] \notin Undrawn
  <2>1. arg[t] # EMPTY /\ pc[t] # "enq_swing"
    BY <1>1 DEF Linking, Filling
  <2>2. \A r \in 1..Len(rings), c \in Slot : rings[r].cell[c].val # arg[t]
    BY <1>1, <2>1 DEF PlacesOK
  <2> QED
    BY <2>2, UndrawnIs
<1>3. CASE Linking(t)
  <2>1. /\ Len(rings') = Len(rings) + 1 /\ Len(rings) \in Nat
        /\ \A r \in 1..Len(rings) : rings'[r] = rings[r]
        /\ rings'[Len(rings) + 1] = NewRing(arg[t]) /\ arg[t] # EMPTY
    BY <1>1, <1>3 DEF Linking, RingLinked, AllTypes
  <2>2. 0 \in Slot
    BY LCRQAssumption DEF Slot
  <2>3. /\ NewRing(arg[t]).head = 0 /\ NewRing(arg[t]).cell[0].val = arg[t] /\ NewRing(arg[t]).cell[0].idx = 0
        /\ \A c \in Slot : NewRing(arg[t]).cell[c].val # EMPTY => NewRing(arg[t]).cell[c].val = arg[t]
    BY <2>2 DEF NewRing, EmptyRing
  <2> HIDE DEF NewRing
  <2>4. ASSUME NEW v \in Undrawn' PROVE v \in Undrawn \cup {arg[t]}
    <3>1. PICK r \in 1..Len(rings'), c \in Slot : Waits(r, c)' /\ rings'[r].cell[c].val = v
      BY UndrawnIs
    <3>2. CASE r \in 1..Len(rings)
      BY <2>1, <3>1, <3>2, UndrawnIs DEF Waits
    <3>3. CASE r = Len(rings) + 1
      BY <2>1, <2>3, <3>1, <3>3 DEF Waits
    <3> QED
      BY <2>1, <3>2, <3>3
  <2>5. ASSUME NEW v \in Undrawn PROVE v \in Undrawn'
    <3>1. PICK r \in 1..Len(rings), c \in Slot : Waits(r, c) /\ rings[r].cell[c].val = v
      BY UndrawnIs
    <3>2. r \in 1..Len(rings') /\ Waits(r, c)' /\ rings'[r].cell[c].val = v
      BY <2>1, <3>1 DEF Waits
    <3> QED
      BY <3>2, UndrawnIs
  <2>6. arg[t] \in Undrawn'
    <3> DEFINE n == Len(rings) + 1
    <3>1. n \in 1..Len(rings') /\ rings'[n].cell[0].val = arg[t]
          /\ rings'[n].cell[0].val # EMPTY /\ rings'[n].cell[0].idx >= rings'[n].head
      BY <2>1, <2>3
    <3> HIDE DEF n
    <3>2. PICK m \in 1..Len(rings') : m = n
      BY <3>1
    <3>3. Waits(m, 0)' /\ rings'[m].cell[0].val = arg[t]
      BY <3>1, <3>2 DEF Waits
    <3> QED
      BY <2>2, <3>3, UndrawnIs
  <2> QED
    BY <1>2, <2>4, <2>5, <2>6
<1>4. CASE Filling(t) /\ my[t].index >= Ring(t).head
  <2> DEFINE q == my[t].rq
             e == my[t].index % RingSize
  <2>1. /\ Len(rings') = Len(rings) /\ q \in 1..Len(rings) /\ e \in Slot
        /\ \A r \in 1..Len(rings) :
             /\ rings'[r].head = rings[r].head
             /\ \A c \in Slot : ~(r = q /\ c = e) => rings'[r].cell[c] = rings[r].cell[c]
        /\ rings'[q].cell[e].idx = my[t].index /\ rings'[q].cell[e].val = arg[t]
    <3>1. CellGets(t, my[t].index, arg[t])
      BY <1>4 DEF Filling
    <3> QED
      BY <1>1, <3>1, CellGetsIs DEF NewCell
  <2>2. rings[q].cell[e].val = EMPTY /\ my[t].index >= rings[q].head /\ arg[t] # EMPTY
    BY <1>1, <1>4 DEF Filling, Cell, Ring
  <2> HIDE DEF q, e
  <2>3. PICK r1 \in 1..Len(rings), c1 \in Slot : r1 = q /\ c1 = e
    BY <2>1
  <2>4. ASSUME NEW r \in 1..Len(rings), NEW c \in Slot, NEW v
        PROVE  Waits(r, c)' /\ rings'[r].cell[c].val = v <=>
                 (Waits(r, c) /\ rings[r].cell[c].val = v) \/ (r = q /\ c = e /\ v = arg[t])
    <3>1. CASE r = q /\ c = e
      BY <2>1, <2>2, <3>1 DEF Waits
    <3>2. CASE ~(r = q /\ c = e)
      BY <2>1, <3>2 DEF Waits
    <3> QED
      BY <3>1, <3>2
  <2>5. ASSUME NEW v PROVE v \in Undrawn' <=> v \in Undrawn \/ v = arg[t]
    <3>1. \A r \in 1..Len(rings), c \in Slot :
            Waits(r, c)' /\ rings'[r].cell[c].val = v <=>
              (Waits(r, c) /\ rings[r].cell[c].val = v) \/ (r = q /\ c = e /\ v = arg[t])
      BY <2>4
    <3>2. v \in Undrawn' <=> \E r \in 1..Len(rings), c \in Slot : Waits(r, c)' /\ rings'[r].cell[c].val = v
      BY <2>1, UndrawnIs
    <3>3. v \in Undrawn <=> \E r \in 1..Len(rings), c \in Slot : Waits(r, c) /\ rings[r].cell[c].val = v
      BY UndrawnIs
    <3> QED
      BY <2>3, <3>1, <3>2, <3>3
  <2> QED
    BY <1>2, <2>5
<1> QED
  BY <1>3, <1>4

(* The draw of a dequeuer, that takes away the value of its index, if the cell
   holds one. *)
LEMMA UndrawnLoses ==
  ASSUME LCRQInv, NEW t \in Dequeuer, Effect(t), Reaching(t),
         NEW x, x = rings[my[t].rq].cell[Ring(t).head % RingSize]
  PROVE  /\ x.val # EMPTY /\ x.idx = Ring(t).head => x.val \in Undrawn /\ Undrawn' = Undrawn \ {x.val}
         /\ ~(x.val # EMPTY /\ x.idx = Ring(t).head) => Undrawn' = Undrawn
<1> DEFINE q == my[t].rq
           h == Ring(t).head
           e == h % RingSize
<1>1. AllTypes /\ t \in Thread /\ PlacesOK
  BY DEF LCRQInv, Thread
<1>2. /\ q \in 1..Len(rings) /\ h \in Nat /\ e \in Slot /\ h = rings[q].head /\ x = rings[q].cell[e]
      /\ \A r \in 1..Len(rings) : rings[r].head \in Nat /\ \A c \in Slot : rings[r].cell[c].idx \in Nat
  BY <1>1, LocalsTyped, RingFacts, SlotOf DEF Ring
<1>3. /\ Len(rings') = Len(rings)
      /\ \A r \in 1..Len(rings) :
           /\ rings'[r].cell = rings[r].cell
           /\ rings'[r].head = IF r = q THEN h + 1 ELSE rings[r].head
  BY DEF Reaching, EndsBecome
<1>4. \A c \in Slot : rings[q].cell[c].idx = h => c = e
  BY <1>1, <1>2 DEF AllTypes
<1> HIDE DEF q, h, e
<1>5. PICK r1 \in 1..Len(rings), c1 \in Slot : r1 = q /\ c1 = e
  BY <1>2
<1>6. ASSUME NEW r \in 1..Len(rings), NEW c \in Slot
      PROVE  Waits(r, c)' <=> Waits(r, c) /\ ~(r = q /\ c = e /\ x.idx = h)
  <2>1. CASE r = q
    <3>1. rings'[r].head = h + 1 /\ rings[r].head = h /\ rings[r].cell[c].idx \in Nat /\ rings'[r].cell = rings[r].cell
      BY <1>2, <1>3, <2>1
    <3>2. rings[r].cell[c].idx >= h + 1 <=> rings[r].cell[c].idx >= h /\ rings[r].cell[c].idx # h
      BY <1>2, <3>1
    <3>3. rings[r].cell[c].idx = h <=> c = e /\ x.idx = h
      BY <1>2, <1>4, <2>1
    <3> QED
      BY <2>1, <3>1, <3>2, <3>3 DEF Waits
  <2>2. CASE r # q
    BY <1>3, <2>2 DEF Waits
  <2> QED
    BY <2>1, <2>2
<1>7. CASE x.val # EMPTY /\ x.idx = h
  <2>1. Waits(r1, c1) /\ rings[r1].cell[c1].val = x.val
    BY <1>2, <1>5, <1>7 DEF Waits
  <2>2. x.val \in Undrawn
    BY <2>1, UndrawnIs
  <2>3. \A r \in 1..Len(rings), c \in Slot : rings[r].cell[c].val = x.val => r = q /\ c = e
    BY <1>1, <1>2, <1>5, <1>7 DEF PlacesOK
  <2>4. ASSUME NEW v
        PROVE  v \in Undrawn' <=> v \in Undrawn /\ v # x.val
    <3>1. ASSUME NEW r \in 1..Len(rings), NEW c \in Slot
          PROVE  Waits(r, c)' /\ rings'[r].cell[c].val = v <=> Waits(r, c) /\ rings[r].cell[c].val = v /\ v # x.val
      BY <1>2, <1>3, <1>6, <1>7, <2>3, <3>1
    <3> QED
      BY <1>3, <3>1, UndrawnIs
  <2> QED
    BY <1>7, <2>2, <2>4 DEF h
<1>8. CASE ~(x.val # EMPTY /\ x.idx = h)
  <2>1. ASSUME NEW r \in 1..Len(rings), NEW c \in Slot
        PROVE  /\ Waits(r, c)' <=> Waits(r, c)
               /\ Waits(r, c) => rings'[r].cell[c].val = rings[r].cell[c].val
    <3>1. r = q /\ c = e /\ x.idx = h => ~Waits(r, c)
      BY <1>2, <1>8 DEF Waits
    <3> QED
      BY <1>3, <1>6, <3>1
  <2>2. Undrawn' = Undrawn
    BY <1>3, <2>1, UndrawnStays
  <2> QED
    BY <1>8, <2>2 DEF h
<1> QED
  BY <1>7, <1>8 DEF h

-----------------------------------------------------------------------------
(* The kinds of steps, and the values that have met their dequeuers *)

(* A step of enqueue that neither begins nor ends it, and fills nothing. *)
Passing(t) ==
  /\ UNCHANGED arg
  /\ pc[t] \notin {"idle", "enq_swing"} /\ pc'[t] \notin {"idle", "enq_swing"}
  /\ UNCHANGED rings \/ Drawing(t) \/ Closing(t)
Finishing(t) == pc[t] = "enq_swing" /\ pc'[t] = "idle" /\ UNCHANGED rings

LEMMA EnqueueKinds ==
  ASSUME LCRQInv, NEW t \in Enqueuer, Enqueuing(t)
  PROVE  /\ UNCHANGED history
         /\ \/ Filling(t) \/ Finishing(t) \/ Passing(t)
            \/ Linking(t) /\ UNCHANGED arg
<1>1. AllTypes /\ t \in Thread /\ pc \in [Thread -> EnqueueLabel \cup DequeueLabel \cup {"idle", "got"}]
      /\ my[t].rq \in 1..Len(rings)
  BY LocalsTyped DEF LCRQInv, Thread, AllTypes
<1>2. ASSUME EnqueueCas(t) PROVE Filling(t) \/ Passing(t)
  BY <1>2, FillAndLink DEF EnqueueCas, Passing
<1>3. ASSUME EnqueueLink(t) PROVE UNCHANGED arg /\ (Linking(t) \/ Passing(t))
  <2>1. UNCHANGED arg /\ pc[t] = "enq_link"
    BY <1>3 DEF EnqueueLink, EnqueueGoes
  <2> QED
    BY <1>3, <2>1, FillAndLink DEF Passing
<1>4. ASSUME EnqueueSwing(t) PROVE Finishing(t)
  BY <1>1, <1>4 DEF EnqueueSwing, EnqueueReturn, Goto, Finishing
<1>5. ASSUME EnqueueDraw(t) \/ EnqueueClose(t) PROVE Passing(t)
  <2>1. UNCHANGED arg /\ pc[t] \in {"enq_draw", "enq_close"} /\ pc'[t] \in {"enq_link", "enq_idx", "enq_tail"}
    BY <1>1, <1>5 DEF EnqueueDraw, EnqueueClose, EnqueueGoes, Goto
  <2>2. UNCHANGED rings \/ Drawing(t) \/ Closing(t)
    BY <1>1, <1>5, EndsAre DEF EnqueueDraw, EnqueueClose, Drawing, Closing, Ring
  <2> QED
    BY <2>1, <2>2 DEF Passing
<1>6. ASSUME \/ EnqueueTail(t) \/ EnqueueNext(t) \/ EnqueueHelp(t) \/ EnqueueIdx(t) \/ EnqueueVal(t)
             \/ EnqueueHead(t) \/ EnqueueFull(t)
      PROVE  Passing(t)
  <2>1. UNCHANGED <<arg, rings>> /\ pc[t] \notin {"idle", "enq_swing"}
    BY <1>6 DEF EnqueueTail, EnqueueNext, EnqueueHelp, EnqueueIdx, EnqueueVal, EnqueueHead, EnqueueFull,
                EnqueueGoes, shared
  <2>2. pc'[t] \notin {"idle", "enq_swing"}
    BY <1>1, <1>6 DEF EnqueueTail, EnqueueNext, EnqueueHelp, EnqueueIdx, EnqueueVal, EnqueueHead, EnqueueFull,
                EnqueueGoes, Fill, Goto
  <2> QED
    BY <2>1, <2>2 DEF Passing
<1>7. UNCHANGED history
  BY DEF Enqueuing, EnqueueTail, EnqueueNext, EnqueueHelp, EnqueueDraw, EnqueueIdx,
              EnqueueVal, EnqueueHead, EnqueueCas, EnqueueFull, EnqueueClose, EnqueueLink, EnqueueSwing,
              EnqueueReturn, EnqueueGoes
<1> QED
  BY <1>2, <1>3, <1>4, <1>5, <1>6, <1>7 DEF Enqueuing

(* A step of dequeue that takes no value, meets none and returns none. *)
Idling(t) ==
  /\ UNCHANGED rings \/ Closing(t) \/ Fixed(t)
  /\ \/ StillWaiting(t) /\ pc'[t] \in Waiting /\ UNCHANGED rings
     \/ pc[t] \in Waiting /\ pc'[t] \notin Waiting \cup {"got"} /\ Cell(t).idx > my[t].index
     \/ pc[t] \notin Waiting \cup {"got"} /\ pc'[t] \notin Waiting \cup {"got"}
Returning(t) == pc[t] = "got" /\ pc'[t] = "idle" /\ UNCHANGED rings

LEMMA DequeueKinds ==
  ASSUME LCRQInv, NEW t \in Dequeuer, Effect(t), Dequeuing(t) \/ DequeueCall(t)
  PROVE  \/ Reaching(t) /\ NowWaiting(t) /\ pc'[t] \in Waiting
         \/ Taking(t) \/ Marking(t) \/ Skipping(t) \/ Idling(t) \/ Returning(t)
<1>1. AllTypes /\ t \in Thread /\ pc \in [Thread -> EnqueueLabel \cup DequeueLabel \cup {"idle", "got"}]
      /\ t \notin Enqueuer
  BY LCRQAssumption DEF LCRQInv, Thread, AllTypes
<1>2. Positions(t) /\ Leaving(t) /\ RingStep(t)
  BY DequeuePositions, DequeueLeaving DEF Effect
<1>3. ASSUME pc'[t] = "got" PROVE Taking(t)
  <2>1. DequeueTake(t)
    BY <1>1, <1>3 DEF Dequeuing, DequeueCall, DequeueHead, DequeueDraw, DequeueIdx, DequeueVal, DequeueLook,
              SkipOrWait, DequeueMark, DequeueSkip, DequeueClose, DequeueTest, FixTail, FixHead, FixCas,
              DequeueNext, AfterDrained, DequeueAgain, DequeueSwing, DequeueReturn, Goto
  <2> QED
    BY <1>3, <2>1, CellSteps
<1>4. ASSUME pc[t] = "got" PROVE Returning(t)
  <2>1. DequeueReturn(t)
    BY <1>4 DEF Dequeuing, DequeueCall, DequeueHead, DequeueDraw, DequeueIdx, DequeueVal, DequeueLook,
              DequeueTake, DequeueMark, DequeueSkip, DequeueClose, DequeueTest, FixTail, FixHead, FixCas,
              DequeueNext, DequeueAgain, DequeueSwing
  <2> QED
    BY <1>1, <1>4, <2>1 DEF DequeueReturn, Goto, shared, Returning
<1>5. CASE pc[t] \in Waiting
  <2>1. ~Reaching(t) /\ ~NowWaiting(t) /\ ~Closing(t) /\ ~Fixed(t)
    BY <1>5 DEF Reaching, NowWaiting, Closing, Fixed, Waiting
  <2>2. UNCHANGED rings \/ Taking(t) \/ Marking(t) \/ Skipping(t)
    BY <1>1, <1>2, <2>1 DEF RingStep
  <2>3. CASE UNCHANGED rings /\ pc'[t] \in Waiting
    BY <1>2, <2>1, <2>3 DEF Positions, Idling
  <2>4. CASE UNCHANGED rings /\ pc'[t] \notin Waiting
    BY <1>2, <1>3, <1>5, <2>4 DEF Leaving, Idling
  <2> QED
    BY <2>2, <2>3, <2>4
<1>6. CASE pc[t] \notin Waiting \cup {"got"}
  <2>1. ~Taking(t) /\ ~Marking(t) /\ ~Skipping(t) /\ ~StillWaiting(t)
    BY <1>6 DEF Taking, Marking, Skipping, StillWaiting, Waiting
  <2>2. CASE pc'[t] \in Waiting
    BY <1>2, <2>1, <2>2 DEF Positions, NowWaiting
  <2>3. CASE pc'[t] \notin Waiting
    <3>1. UNCHANGED rings \/ Closing(t) \/ Fixed(t)
      BY <1>1, <1>2, <2>1, <2>3 DEF RingStep, Leaving
    <3> QED
      BY <1>3, <1>6, <2>1, <2>3, <3>1 DEF Idling
  <2> QED
    BY <2>2, <2>3
<1> QED
  BY <1>4, <1>5, <1>6

LEMMA MetIs ==
  ASSUME NEW t \in Dequeuer
  PROVE  /\ pc[t] \in Waiting /\ Cell(t).idx = my[t].index => Met(t) = Cell(t).val
         /\ pc[t] \in Waiting /\ Cell(t).idx # my[t].index => Met(t) = EMPTY
         /\ pc[t] = "got" => Met(t) = my[t].seen.val
         /\ pc[t] \notin Waiting \cup {"got"} => Met(t) = EMPTY
         /\ pc'[t] \in Waiting /\ Cell(t)'.idx = my'[t].index => Met(t)' = Cell(t)'.val
         /\ pc'[t] \in Waiting /\ Cell(t)'.idx # my'[t].index => Met(t)' = EMPTY
         /\ pc'[t] = "got" => Met(t)' = my'[t].seen.val
         /\ pc'[t] \notin Waiting \cup {"got"} => Met(t)' = EMPTY
<1>1. "got" \notin Waiting
  BY DEF Waiting
<1> QED
  BY <1>1 DEF Met

(* What the others have met stays, unless this step fills the cell for it. *)
LEMMA MetElsewhere ==
  ASSUME LCRQInv, NEW t \in Thread, Effect(t), NEW u \in Dequeuer, u # t,
         ~(/\ t \in Enqueuer /\ Filling(t)
           /\ pc[u] \in Waiting /\ my[u].rq = my[t].rq /\ my[u].index = my[t].index)
  PROVE  Met(u)' = Met(u)
<1>1. AllTypes /\ u \in Thread /\ DistinctOK
  BY DEF LCRQInv, Thread
<1>2. pc'[u] = pc[u] /\ my'[u] = my[u]
  BY <1>1 DEF Effect, OnlyMe
<1>3. my[u].rq \in 1..Len(rings) /\ my[u].index % RingSize \in Slot /\ my[u].index \in Nat /\ RingSize \in Nat \ {0}
  BY <1>1, LocalsTyped, LCRQAssumption
<1>4. Cell(u)' = rings'[my[u].rq].cell[my[u].index % RingSize]
  BY <1>2 DEF Cell, Ring
<1>5. CASE pc[u] \notin Waiting
  BY <1>2, <1>5, MetIs
<1>6. CASE pc[u] \in Waiting /\ Cell(u)' = Cell(u)
  BY <1>2, <1>6, MetIs
<1>7. CASE pc[u] \in Waiting /\ Cell(u)' # Cell(u)
  <2>1. /\ Filling(t) \/ Taking(t) \/ Marking(t) \/ Skipping(t)
        /\ my[u].rq = my[t].rq /\ my[u].index % RingSize = my[t].index % RingSize
    BY <1>3, <1>4, <1>7, CellStays DEF Cell, Ring
  <2>2. Cell(u) = Cell(t) /\ Cell(u)' = NewCell(t)
    BY <1>4, <2>1 DEF Cell, Ring, NewCell
  <2>3. CASE Filling(t)
    <3>1. t \in Enqueuer
      BY <1>1, <2>3 DEF Filling, AllTypes, DequeueLabel, Waiting, Thread
    <3>2. Cell(u).val = EMPTY /\ Cell(u)'.idx # my[u].index
      BY <1>7, <2>1, <2>2, <2>3, <3>1 DEF Filling, CellGets
    <3> QED
      BY <1>2, <1>7, <3>2, MetIs
  <2>4. CASE Taking(t)
    <3>1. t \in Dequeuer /\ pc[t] \in Waiting
      BY <1>1, <2>4 DEF Taking, AllTypes, EnqueueLabel, Waiting, Thread
    <3>2. Cell(u).idx # my[u].index /\ Cell(u)'.val = EMPTY
      BY <1>1, <1>7, <2>1, <2>2, <2>4, <3>1 DEF Taking, CellGets, DistinctOK
    <3> QED
      BY <1>2, <1>7, <3>2, MetIs
  <2>5. CASE Marking(t)
    <3>1. Cell(u)'.val = Cell(u).val /\ Cell(u)'.idx = Cell(u).idx
      BY <2>2, <2>5 DEF Marking, CellGets
    <3> QED
      BY <1>2, <1>7, <3>1, MetIs
  <2>6. CASE Skipping(t)
    <3>1. Cell(u)'.val = EMPTY /\ Cell(u).val = EMPTY
      BY <2>2, <2>6 DEF Skipping, CellGets
    <3> QED
      BY <1>2, <1>7, <3>1, MetIs
  <2> QED
    BY <2>1, <2>3, <2>4, <2>5, <2>6
<1> QED
  BY <1>5, <1>6, <1>7

-----------------------------------------------------------------------------
(* Refinement *)

(* The puts that run. *)
LEMMA AddingIs ==
  /\ \A v : v \in Adding <=> \E u \in Enqueuer : /\ arg[u] = v /\ pc[u] # "idle"
                                                 /\ pc[u] = "enq_swing" => arg[u] \in Undrawn
  /\ \A v : v \in Adding' <=> \E u \in Enqueuer : /\ arg'[u] = v /\ pc'[u] # "idle"
                                                  /\ pc'[u] = "enq_swing" => arg'[u] \in Undrawn'
  BY DEF Adding

(* A put that runs keeps running while its enqueuer does not move. *)
LEMMA AddingElsewhere ==
  ASSUME LCRQInv, NEW t \in Thread, Effect(t), NEW v, v \in Undrawn <=> v \in Undrawn',
         t \in Enqueuer => arg[t] # v /\ arg'[t] # v
  PROVE  v \in Adding <=> v \in Adding'
<1>1. \A u \in Enqueuer \ {t} : arg'[u] = arg[u] /\ pc'[u] = pc[u]
  BY DEF Effect, OnlyMe, Thread
<1> QED
  BY <1>1, AddingIs

(* A value still to be taken is not before one whose index a dequeuer has met,
   or meets now, at q, j. *)
LEMMA Oldest ==
  ASSUME LCRQInv, NEW u \in Undrawn, NEW v \in Value, <<u, v>> \in before,
         NEW q \in 1..Len(rings), q <= head, NEW j \in Nat, j <= rings[q].head,
         \/ \E e \in Slot : rings[q].cell[e].val = v /\ rings[q].cell[e].idx = j
         \/ \E t \in Enqueuer : arg[t] = v /\ Drawn(t) /\ my[t].rq = q /\ my[t].index = j
  PROVE  FALSE
<1>1. AllTypes /\ OrderOK /\ FinishedOK /\ before \subseteq Value \X Value /\ head \in Nat
  BY DEF LCRQInv, AllTypes
<1>2. PICK r \in 1..Len(rings), c \in Slot : Waits(r, c) /\ rings[r].cell[c].val = u
  BY UndrawnIs
<1>3. u \in Value
  BY <1>1
<1>4. Less(r, rings[r].cell[c].idx, q, j)
  BY <1>1, <1>2, <1>3 DEF OrderOK
<1>5. r \in Nat /\ q \in Nat /\ rings[r].head \in Nat /\ rings[r].cell[c].idx \in Nat
  BY <1>1, RingFacts
<1>6. CASE r < q
  <2>1. Finished(r)
    BY <1>1, <1>5, <1>6 DEF FinishedOK
  <2>2. rings[r].cell[c].idx < rings[r].head
    BY <1>2, <2>1 DEF Waits, Finished
  <2> QED
    BY <1>2, <1>5, <2>2 DEF Waits
<1>7. CASE r = q /\ rings[r].cell[c].idx < j
  BY <1>2, <1>5, <1>7 DEF Waits
<1> QED
  BY <1>4, <1>6, <1>7 DEF Less

Steady == UNCHANGED <<put, before>> /\ Adding' = Adding /\ Added' = Added
Taken == [u \in Dequeuer |-> Met(u)]

LEMMA NothingChanges ==
  ASSUME Steady, \A u \in Dequeuer : Met(u)' = Met(u)
  PROVE  UNCHANGED Overlap!vars
<1>1. Taken' = Taken
  BY DEF Taken
<1> QED
  BY <1>1 DEF Steady, Taken, Overlap!vars

(* enqueue *)
LEMMA EnqueueRefines ==
  ASSUME LCRQInv, NEW t \in Enqueuer, Enqueuing(t) \/ \E v \in Value : EnqueueCall(t, v), Remember
  PROVE  [Overlap!Next]_(Overlap!vars)
<1>1. /\ AllTypes /\ PlacesOK /\ EnqueuerOK(t) /\ t \in Thread /\ t \notin Dequeuer /\ Effect(t) /\ EMPTY \notin Value
      /\ EnqueuerOK(t)' /\ (\A u \in Dequeuer : u # t)
  BY LCRQAssumption, EnqueueEffect, EnqueuerLearns DEF LCRQInv, Thread
<1>2. \A u \in Enqueuer \ {t} : arg'[u] = arg[u] /\ pc'[u] = pc[u]
  BY <1>1 DEF Effect, OnlyMe, Thread
<1>3. \A u \in Enqueuer \ {t} : arg[u] # arg[t] \/ arg[t] = EMPTY
  BY <1>1 DEF PlacesOK
<1>4. ~Filling(t) => \A u \in Dequeuer : Met(u)' = Met(u)
  BY <1>1, MetElsewhere
<1>5. /\ Added = Undrawn \ Adding /\ Added' = Undrawn' \ Adding'
      /\ \A v \in Undrawn : v \in put /\ v # EMPTY
  <2>1. \A v \in Undrawn : v \in put /\ v # EMPTY
    BY <1>1, UndrawnIs DEF PlacesOK, Waits
  <2> QED
    BY <2>1 DEF Added
<1>6. arg[t] \in Value \cup {EMPTY}
  BY <1>1 DEF AllTypes
<1>7. ASSUME NEW v \in Value, EnqueueCall(t, v) PROVE Overlap!PutBegins(v)
  <2>1. /\ UNCHANGED rings /\ pc[t] = "idle" /\ v \notin put /\ put' = put \cup {v}
        /\ before' = before \cup (Added \X {v}) /\ arg'[t] = v /\ pc'[t] = "enq_tail"
    BY <1>1, <1>7 DEF EnqueueCall, shared, Goto, AllTypes
  <2>2. Undrawn' = Undrawn
    BY <1>1, <2>1, UndrawnKept
  <2>3. arg[t] = EMPTY
    BY <1>1, <2>1 DEF EnqueuerOK
  <2>4. ASSUME NEW w PROVE w \in Adding' <=> w \in Adding \/ w = v
    <3>1. CASE w = v
      BY <2>1, <3>1, AddingIs
    <3>2. CASE w = EMPTY
      <4>1. \A u \in Enqueuer : arg[u] = EMPTY => pc[u] = "idle"
        BY DEF LCRQInv, EnqueuerOK
      <4> QED
        BY <1>1, <1>2, <2>1, <3>2, <4>1, AddingIs
    <3>3. CASE w # v /\ w # EMPTY
      BY <1>1, <2>1, <2>2, <2>3, <3>3, AddingElsewhere
    <3> QED
      BY <3>1, <3>2, <3>3
  <2>5. Adding' = Adding \cup {v}
    BY <2>4
  <2>6. Added' = Added
    BY <1>5, <2>1, <2>2, <2>5
  <2>7. Taken' = Taken
    BY <1>4, <2>1 DEF Filling, Taken
  <2> QED
    BY <2>1, <2>5, <2>6, <2>7 DEF Overlap!PutBegins, Taken
<1>8. ASSUME Enqueuing(t), Passing(t) PROVE UNCHANGED Overlap!vars
  <2>1. Undrawn' = Undrawn
    BY <1>1, <1>8, UndrawnKept DEF Passing
  <2>2. Adding' = Adding
    <3>1. \A v : v \in Adding' <=> v \in Adding
      BY <1>2, <1>8, <2>1, AddingIs DEF Passing
    <3> QED
      BY <3>1
  <2>3. UNCHANGED <<put, before>>
    BY <1>8, EnqueueKinds DEF history
  <2>4. ~Filling(t)
    BY <1>8 DEF Passing, Filling
  <2> QED
    BY <1>4, <1>5, <2>1, <2>2, <2>3, <2>4, NothingChanges DEF Steady
<1>9. ASSUME Enqueuing(t), Linking(t), UNCHANGED arg PROVE UNCHANGED Overlap!vars
  <2>1. Undrawn' = Undrawn \cup {arg[t]} /\ arg[t] \notin Undrawn
    BY <1>1, <1>9, UndrawnGains
  <2>2. pc[t] = "enq_link" /\ pc'[t] = "enq_swing"
    BY <1>9 DEF Linking
  <2>3. arg[t] \in Adding /\ arg[t] \in Adding'
    BY <1>9, <2>1, <2>2, AddingIs
  <2>4. \A v : v # arg[t] => (v \in Adding <=> v \in Adding')
    BY <1>1, <1>9, <2>1, AddingElsewhere
  <2>5. Adding' = Adding /\ Added' = Added
    BY <1>5, <2>1, <2>3, <2>4
  <2>6. UNCHANGED <<put, before>>
    BY <1>9, EnqueueKinds DEF history
  <2>7. ~Filling(t)
    BY <2>2 DEF Filling
  <2> QED
    BY <1>4, <2>5, <2>6, <2>7, NothingChanges DEF Steady
(* the enqueuer is done with its value *)
<1>e. ASSUME Enqueuing(t), pc'[t] = "idle", Undrawn' \ {arg[t]} = Undrawn \ {arg[t]}, arg[t] \in Value
      PROVE  Adding' = Adding \ {arg[t]}
  <2>1. arg[t] \notin Adding'
    BY <1>2, <1>3, <1>e, <1>1, AddingIs
  <2>2. ASSUME NEW v, v # arg[t] PROVE v \in Adding <=> v \in Adding'
    <3>1. \A u \in Enqueuer : arg[u] = EMPTY => pc[u] = "idle"
      BY DEF LCRQInv, EnqueuerOK
    <3>2. arg'[t] = EMPTY
      BY <1>1, <1>e DEF EnqueuerOK
    <3>3. CASE v = EMPTY
      BY <1>2, <1>e, <1>1, <3>1, <3>3, AddingIs
    <3>4. CASE v # EMPTY
      BY <1>1, <1>e, <2>2, <3>2, <3>4, AddingElsewhere
    <3> QED
      BY <3>3, <3>4
  <2> QED
    BY <2>1, <2>2
<1>10. ASSUME Enqueuing(t), Finishing(t) PROVE Overlap!PutReturns(arg[t]) \/ UNCHANGED Overlap!vars
  <2>1. Undrawn' = Undrawn /\ pc[t] = "enq_swing" /\ pc'[t] = "idle"
    BY <1>1, <1>10, UndrawnKept DEF Finishing
  <2>2. arg[t] \in Value
    BY <1>1, <1>6, <2>1 DEF EnqueuerOK
  <2>3. Adding' = Adding \ {arg[t]}
    BY <1>10, <1>e, <2>1, <2>2
  <2>4. UNCHANGED <<put, before>> /\ \A u \in Dequeuer : Met(u)' = Met(u)
    <3>1. ~Filling(t)
      BY <2>1 DEF Filling
    <3> QED
      BY <1>10, <1>4, <3>1, EnqueueKinds DEF history
  <2>5. CASE arg[t] \in Undrawn
    <3>1. arg[t] \in Adding
      BY <2>1, <2>5, AddingIs
    <3>2. Added' = Added \cup {arg[t]}
      BY <1>5, <2>1, <2>3, <2>5
    <3>3. Taken' = Taken
      BY <2>4 DEF Taken
    <3> QED
      BY <2>3, <2>4, <3>1, <3>2, <3>3 DEF Overlap!PutReturns, Taken
  <2>6. CASE arg[t] \notin Undrawn
    <3>1. arg[t] \notin Adding
      BY <1>3, <2>1, <2>2, <2>6, <1>1, AddingIs
    <3>2. Adding' = Adding /\ Added' = Added
      BY <1>5, <2>1, <2>3, <3>1
    <3> QED
      BY <2>4, <3>2, NothingChanges DEF Steady
  <2> QED
    BY <2>5, <2>6
<1>11. ASSUME Enqueuing(t), Filling(t), my[t].index >= Ring(t).head PROVE Overlap!PutReturns(arg[t])
  <2>1. Undrawn' = Undrawn \cup {arg[t]} /\ arg[t] \notin Undrawn /\ pc[t] = "enq_cas" /\ pc'[t] = "idle" /\ arg[t] \in Value
    BY <1>1, <1>11, UndrawnGains DEF Filling
  <2>2. Adding' = Adding \ {arg[t]} /\ arg[t] \in Adding
    <3>1. arg[t] \in Adding
      BY <2>1, AddingIs
    <3> QED
      BY <1>11, <1>e, <2>1, <3>1
  <2>3. Added' = Added \cup {arg[t]}
    BY <1>5, <2>1, <2>2
  <2>4. UNCHANGED <<put, before>>
    BY <1>11, EnqueueKinds DEF history
  <2>5. ASSUME NEW u \in Dequeuer PROVE Met(u)' = Met(u)
    <3>1. pc[u] \in Waiting /\ my[u].rq = my[t].rq => my[u].index < Ring(t).head
      BY DEF LCRQInv, DequeuerOK, Ring
    <3>2. my[t].index \in Nat /\ Ring(t).head \in Nat
      BY <1>1, LocalsTyped DEF RingType
    <3>3. ~(pc[u] \in Waiting /\ my[u].rq = my[t].rq /\ my[u].index = my[t].index)
      BY <1>11, <3>1, <3>2
    <3> QED
      BY <1>1, <3>3, MetElsewhere
  <2>6. Taken' = Taken
    BY <2>5 DEF Taken
  <2> QED
    BY <2>2, <2>3, <2>4, <2>6 DEF Overlap!PutReturns, Taken
(* the dequeuer of the index is waiting for this value *)
<1>12. ASSUME Enqueuing(t), Filling(t), ~(my[t].index >= Ring(t).head)
       PROVE  \E d \in Dequeuer : Overlap!Get(d)
  <2>1. /\ pc[t] = "enq_cas" /\ pc'[t] = "idle" /\ arg[t] \in Value /\ Cell(t) = my[t].seen
        /\ Cell(t).idx <= my[t].index /\ Cell(t).val = EMPTY
        /\ NewCell(t).idx = my[t].index /\ NewCell(t).val = arg[t]
    BY <1>12 DEF Filling, CellGets
  <2>2. /\ my[t].index \in Nat /\ Ring(t).head \in Nat /\ my[t].index < Ring(t).head
        /\ my[t].rq \in 1..Len(rings) /\ Cell(t).idx \in Nat /\ Cell(t) \in CellType
        /\ my[t].index % RingSize \in Slot
    BY <1>1, <1>12, LocalsTyped DEF RingType, CellType
  <2>3. PICK d \in Dequeuer : pc[d] \in Waiting /\ my[d].rq = my[t].rq /\ my[d].index = my[t].index
    <3>1. SUFFICES ASSUME Abandoned(my[t].rq, my[t].index) PROVE FALSE
      BY <2>2 DEF Abandoned, Ring
    <3>2. Unfillable(my[t].rq, my[t].index, my[t].index % RingSize)
      BY <2>2, <3>1 DEF LCRQInv, AbandonedOK
    <3>3. Cell(t).unsafe /\ Misses(t, my[t].rq, my[t].index, my[t].index % RingSize)
      BY <2>1, <2>2, <3>2 DEF Unfillable, Cell, Ring
    <3> QED
      BY <2>1, <2>2, <3>3 DEF Misses, Cell, Ring
  <2>4. Undrawn' = Undrawn
    BY <1>1, <1>12, <2>2, UndrawnKept
  <2>5. arg[t] \in Adding /\ arg[t] \notin Undrawn /\ Adding' = Adding \ {arg[t]}
    <3>1. arg[t] \in Adding
      BY <2>1, AddingIs
    <3>2. arg[t] \notin Undrawn
      BY <1>1, <2>1, UndrawnIs DEF PlacesOK
    <3> QED
      BY <1>12, <1>e, <2>1, <2>4, <3>1, <3>2
  <2>6. Added' = Added /\ arg[t] \notin Added
    BY <1>5, <2>4, <2>5
  <2>7. \A u \in Added : <<u, arg[t]>> \notin before
    <3>1. SUFFICES ASSUME NEW u \in Added, <<u, arg[t]>> \in before PROVE FALSE
      OBVIOUS
    <3>2. u \in Undrawn /\ my[t].rq <= head
      BY <1>5, <2>3 DEF LCRQInv, DequeuerOK
    <3>3. Drawn(t) /\ my[t].index <= rings[my[t].rq].head
      BY <2>1, <2>2 DEF Drawn, Ring
    <3> QED
      BY <2>1, <2>2, <3>1, <3>2, <3>3, Oldest
  <2>8. Met(d) = EMPTY /\ Met(d)' = arg[t] /\ \A u \in Dequeuer \ {d} : Met(u)' = Met(u)
    <3>1. Cell(d) = Cell(t) /\ d \in Thread /\ d # t
      BY <1>1, <2>3 DEF Cell, Ring, Thread
    <3>2. pc'[d] = pc[d] /\ my'[d] = my[d]
      BY <1>1, <3>1 DEF Effect, OnlyMe
    <3>3. Cell(d)' = NewCell(t)
      BY <2>3, <3>2 DEF Cell, Ring, NewCell
    <3>4. Met(d) = EMPTY
      BY <2>1, <2>3, <3>1, MetIs
    <3>5. Met(d)' = arg[t]
      BY <2>1, <2>3, <3>2, <3>3, MetIs
    <3>6. \A u \in Dequeuer \ {d} : Met(u)' = Met(u)
      BY <1>1, <2>3, MetElsewhere DEF LCRQInv, DistinctOK
    <3> QED
      BY <3>4, <3>5, <3>6
  <2>9. Taken' = [Taken EXCEPT ![d] = arg[t]] /\ Taken[d] = EMPTY
    BY <2>8 DEF Taken
  <2>10. UNCHANGED <<put, before>>
    BY <1>12, EnqueueKinds DEF history
  <2>11. Adding' = Adding \ {arg[t]} /\ Added' = Added \ {arg[t]} /\ arg[t] \in Adding \cup Added
    BY <2>5, <2>6
  <2> QED
    BY <2>7, <2>9, <2>10, <2>11 DEF Overlap!Get, Taken
<1>13. CASE \E v \in Value : EnqueueCall(t, v)
  BY <1>7, <1>13 DEF Overlap!Next
<1>14. CASE Enqueuing(t)
  <2>1. arg[t] \in Value \/ ~(Filling(t) \/ Finishing(t))
    BY <1>1, <1>6 DEF Filling, Finishing, EnqueuerOK
  <2> QED
    BY <1>8, <1>9, <1>10, <1>11, <1>12, <1>14, <2>1, EnqueueKinds DEF Overlap!Next
<1> QED
  BY <1>13, <1>14

(* dequeue *)
LEMMA DequeueRefines ==
  ASSUME LCRQInv, NEW t \in Dequeuer, Dequeuing(t) \/ DequeueCall(t), UNCHANGED <<arg, history>>, Remember
  PROVE  [Overlap!Next]_(Overlap!vars)
<1>1. /\ AllTypes /\ PlacesOK /\ DequeuerOK(t) /\ t \in Thread /\ t \notin Enqueuer /\ Effect(t) /\ EMPTY \notin Value
      /\ (\A u \in Enqueuer : u # t)
  BY LCRQAssumption, DequeueEffect DEF LCRQInv, Thread
<1>2. \A u \in Enqueuer : arg'[u] = arg[u] /\ pc'[u] = pc[u]
  BY <1>1 DEF Effect, OnlyMe, Thread
<1>3. UNCHANGED <<put, before>> /\ \A u \in Dequeuer \ {t} : Met(u)' = Met(u)
  BY <1>1, MetElsewhere DEF history
<1>4. Added = Undrawn \ Adding /\ Added' = Undrawn' \ Adding'
  BY DEF Added
(* nothing leaves the queue *)
<1>5. ASSUME Undrawn' = Undrawn, Met(t)' = Met(t) PROVE UNCHANGED Overlap!vars
  <2>1. \A v : v \in Adding' <=> v \in Adding
    BY <1>2, <1>5, AddingIs
  <2>2. Steady
    BY <1>3, <1>4, <1>5, <2>1 DEF Steady
  <2> QED
    BY <1>3, <1>5, <2>2, NothingChanges
<1>6. ASSUME Reaching(t), NowWaiting(t), pc'[t] \in Waiting PROVE Overlap!Get(t) \/ UNCHANGED Overlap!vars
  <2> DEFINE q == my[t].rq
             h == Ring(t).head
  <2>1. PICK x : x = rings[my[t].rq].cell[Ring(t).head % RingSize]
    OBVIOUS
  <2>2. /\ q \in 1..Len(rings) /\ q <= head /\ h \in Nat /\ h = rings[q].head /\ h % RingSize \in Slot
        /\ x.val \in Value \cup {EMPTY}
    BY <1>1, <2>1, LocalsTyped, RingFacts, SlotOf DEF Ring, DequeuerOK
  <2>3. Met(t) = EMPTY
    BY <1>6, MetIs DEF Reaching, Waiting
  <2>4. Cell(t)' = x /\ my'[t].index = h
    <3>1. my'[t].rq = q /\ my'[t].index = h /\ rings'[q].cell = rings[q].cell
      BY <1>6, <2>2 DEF Reaching, NowWaiting, EndsBecome
    <3> QED
      BY <2>1, <3>1 DEF Cell, Ring
  <2>5. CASE x.val # EMPTY /\ x.idx = h
    <3>1. x.val \in Undrawn /\ Undrawn' = Undrawn \ {x.val} /\ x.val \in Value
      BY <1>1, <1>6, <2>1, <2>2, <2>5, UndrawnLoses
    <3>2. \A u \in Enqueuer : arg[u] = x.val => pc[u] = "enq_swing"
      <4>1. PICK e \in Slot : x = rings[q].cell[e]
        BY <2>1, <2>2
      <4> HIDE DEF q, h
      <4> QED
        BY <1>1, <2>2, <2>5, <4>1 DEF PlacesOK
    <3>3. \A v : v \in Adding' <=> v \in Adding /\ v # x.val
      BY <1>2, <3>1, <3>2, AddingIs
    <3>4. Adding' = Adding \ {x.val} /\ Added' = Added \ {x.val} /\ x.val \in Adding \cup Added
      BY <1>4, <3>1, <3>3
    <3>5. \A u \in Added : <<u, x.val>> \notin before
      <4>1. SUFFICES ASSUME NEW u \in Added, <<u, x.val>> \in before PROVE FALSE
        OBVIOUS
      <4>2. u \in Undrawn /\ h <= rings[q].head
        BY <1>4, <2>2
      <4>3. \E e \in Slot : rings[q].cell[e].val = x.val /\ rings[q].cell[e].idx = h
        BY <2>1, <2>2, <2>5
      <4> HIDE DEF q, h
      <4> QED
        BY <2>2, <3>1, <4>1, <4>2, <4>3, Oldest
    <3>6. Met(t)' = x.val
      BY <1>6, <2>4, <2>5, MetIs
    <3>7. Taken' = [Taken EXCEPT ![t] = x.val] /\ Taken[t] = EMPTY
      BY <1>3, <2>3, <3>6 DEF Taken
    <3> QED
      BY <1>3, <3>4, <3>5, <3>7 DEF Overlap!Get, Taken
  <2>6. CASE ~(x.val # EMPTY /\ x.idx = h)
    <3>1. Undrawn' = Undrawn
      BY <1>1, <1>6, <2>1, <2>6, UndrawnLoses
    <3>2. Met(t)' = EMPTY
      BY <1>6, <2>4, <2>6, MetIs
    <3> QED
      BY <1>5, <2>3, <3>1, <3>2
  <2> QED
    BY <2>5, <2>6
<1>7. ASSUME Taking(t) \/ Marking(t) \/ Skipping(t) PROVE UNCHANGED Overlap!vars
  <2>1. Undrawn' = Undrawn
    BY <1>1, <1>7, UndrawnKept
  <2>2. CASE Taking(t)
    <3>1. pc[t] \in Waiting
      BY <2>2 DEF Taking, Waiting
    <3>2. Met(t)' = Met(t)
      BY <2>2, <3>1, MetIs DEF Taking
    <3> QED
      BY <1>5, <2>1, <3>2
  <2>3. CASE Marking(t) \/ Skipping(t)
    <3>1. pc[t] \in Waiting /\ pc'[t] \notin Waiting \cup {"got"}
      BY <2>3 DEF Marking, Skipping, Waiting
    <3>2. Cell(t).idx = my[t].index => Cell(t).val = EMPTY
      <4>1. Cell(t).idx \in Nat /\ my[t].index \in Nat
        BY <1>1, LocalsTyped DEF CellType
      <4> QED
        BY <2>3, <4>1 DEF Marking, Skipping
    <3>3. Met(t)' = Met(t)
      BY <3>1, <3>2, MetIs
    <3> QED
      BY <1>5, <2>1, <3>3
  <2> QED
    BY <1>7, <2>2, <2>3
<1>8. ASSUME Idling(t) PROVE UNCHANGED Overlap!vars
  <2>1. Undrawn' = Undrawn
    BY <1>1, <1>8, UndrawnKept DEF Idling
  <2>2. CASE StillWaiting(t) /\ pc'[t] \in Waiting /\ UNCHANGED rings
    <3>1. Cell(t)' = Cell(t) /\ pc[t] \in Waiting /\ my'[t].index = my[t].index
      BY <2>2 DEF StillWaiting, Cell, Ring
    <3>2. Met(t)' = Met(t)
      BY <2>2, <3>1, MetIs
    <3> QED
      BY <1>5, <2>1, <3>2
  <2>3. CASE pc[t] \in Waiting /\ pc'[t] \notin Waiting \cup {"got"} /\ Cell(t).idx > my[t].index
    <3>1. Cell(t).idx # my[t].index
      BY <1>1, <2>3, LocalsTyped DEF CellType
    <3>2. Met(t)' = Met(t)
      BY <2>3, <3>1, MetIs
    <3> QED
      BY <1>5, <2>1, <3>2
  <2>4. CASE pc[t] \notin Waiting \cup {"got"} /\ pc'[t] \notin Waiting \cup {"got"}
    <3>1. Met(t)' = Met(t)
      BY <2>4, MetIs
    <3> QED
      BY <1>5, <2>1, <3>1
  <2> QED
    BY <1>8, <2>2, <2>3, <2>4 DEF Idling
<1>9. ASSUME Returning(t) PROVE Overlap!GetReturns(t)
  <2>1. Undrawn' = Undrawn
    BY <1>1, <1>9, UndrawnKept DEF Returning
  <2>2. Adding' = Adding /\ Added' = Added
    <3>1. \A v : v \in Adding' <=> v \in Adding
      BY <1>2, <2>1, AddingIs
    <3> QED
      BY <1>4, <2>1, <3>1
  <2>3. Met(t) # EMPTY /\ Met(t)' = EMPTY
    <3>1. pc[t] = "got" /\ pc'[t] \notin Waiting \cup {"got"} /\ my[t].seen.val # EMPTY
      BY <1>1, <1>9 DEF Returning, Waiting, DequeuerOK
    <3> QED
      BY <3>1, MetIs
  <2>4. Taken' = [Taken EXCEPT ![t] = EMPTY] /\ Taken[t] # EMPTY
    <3>1. \A u \in Dequeuer : Met(u)' = IF u = t THEN EMPTY ELSE Met(u)
      BY <1>3, <2>3
    <3> QED
      BY <2>3, <3>1 DEF Taken
  <2> QED
    BY <1>3, <2>2, <2>4 DEF Overlap!GetReturns, Taken
<1> QED
  BY <1>1, <1>6, <1>7, <1>8, <1>9, DequeueKinds DEF Overlap!Next

(* lcrq.c is a linearizable queue, for any number of threads and any sizes:
   every value comes out of exactly one dequeue, and never after a value whose
   enqueue began when its own had returned. *)
THEOREM LCRQIsAQueue == Spec => OverlapRefinement
<1>1. Init => Overlap!Init
  <2> SUFFICES ASSUME Init PROVE Overlap!Init
    OBVIOUS
  <2>1. /\ Len(rings) = 1 /\ \A r \in 1..Len(rings) : r = 1 /\ rings[r] = EmptyRing
        /\ \A t \in Thread : pc[t] = "idle"
        /\ put = {} /\ before = {}
    BY DEF Init, Thread
  <2>2. \A c \in Slot : EmptyRing.cell[c].val = EMPTY
    BY DEF EmptyRing
  <2>3. Undrawn = {}
    <3>1. \A v : v \notin Undrawn
      BY <2>1, <2>2, UndrawnIs DEF Waits
    <3> QED
      BY <3>1
  <2>4. Adding = {} /\ Added = {}
    <3>1. \A v : v \notin Adding
      BY <2>1, AddingIs DEF Thread
    <3> QED
      BY <2>3, <3>1 DEF Added
  <2>5. \A t \in Dequeuer : Met(t) = EMPTY
    BY <2>1, MetIs DEF Thread, Waiting
  <2> QED
    BY <2>1, <2>4, <2>5 DEF Overlap!Init
<1>2. LCRQInv /\ [Next]_vars => [Overlap!Next]_(Overlap!vars)
  <2> SUFFICES ASSUME LCRQInv, [Next]_vars PROVE [Overlap!Next]_(Overlap!vars)
    OBVIOUS
  <2>1. CASE UNCHANGED vars
    <3>1. UNCHANGED <<rings, pc, arg, my, put, before>>
      BY <2>1 DEF vars, shared, history
    <3>2. Undrawn' = Undrawn
      BY <3>1 DEF Undrawn, InRing
    <3>3. \A v : v \in Adding' <=> v \in Adding
      BY <3>1, <3>2, AddingIs
    <3>4. Steady
      BY <3>1, <3>2, <3>3 DEF Steady, Added
    <3>5. \A u \in Dequeuer : Met(u)' = Met(u)
      BY <3>1 DEF Met, Cell, Ring
    <3> QED
      BY <3>4, <3>5, NothingChanges
  <2>2. CASE \E t \in Enqueuer : EnqueueStep(t) \/ (\E v \in Value : EnqueueCall(t, v) /\ Remember)
    BY <2>2, EnqueueRefines DEF EnqueueStep
  <2>3. CASE \E t \in Dequeuer : DequeueStep(t) \/ (DequeueCall(t) /\ UNCHANGED <<arg, history>> /\ Remember)
    BY <2>3, DequeueRefines DEF DequeueStep, Dequeuing
  <2> QED
    BY <2>1, <2>2, <2>3 DEF Next
<1> QED
  BY <1>1, <1>2, LCRQKeepsInv, PTL DEF Spec, Overlap!Spec, OverlapRefinement

=============================================================================
