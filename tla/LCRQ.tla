-------------------------------- MODULE LCRQ --------------------------------
(***************************************************************************)
(* The queue of lcrq.c: a list of rings.  enqueue and dequeue draw an      *)
(* index from the tail or the head of a ring by fetch-and-add and meet at  *)
(* the cell index % RING_SIZE, whose value, index and unsafe bit change    *)
(* together by double-width compare-and-swap.  A ring that is full, or     *)
(* whose dequeuers lost patience, is closed; enqueue then links a new ring *)
(* that holds its value already.                                           *)
(*                                                                         *)
(* One step is one access to shared memory.  Rings are numbered in the     *)
(* order in which they are linked, so that the next field of ring r is     *)
(* null exactly if r is the last one; the ring a thread prepares in nrq    *)
(* before it links it is private, and here comes into being when it is     *)
(* linked.  Bit 63 of tail and of a cell's idx are the fields closed and   *)
(* unsafe.                                                                 *)
(***************************************************************************)
EXTENDS Integers, Sequences, Functions

CONSTANTS
  Enqueuer, Dequeuer,   \* the threads that call enqueue, and dequeue
  Value,                \* what is put, each value once
  EMPTY,                \* -1: an empty cell, and "no value"
  RingSize,             \* RING_SIZE, 2^17 in the code
  Refresh,              \* how often a waiting dequeuer reads tail: 1024
  Patience,             \* how often it looks at its cell: 200000
  CloseTries,           \* tries before close_crq sets the bit outright: 10
  MaxDraws,             \* bound on the indices that dequeuers draw
  MaxCalls              \* bound: no dequeue begins after so many draws

Thread == Enqueuer \cup Dequeuer

ASSUME LCRQAssumption ==
  /\ EMPTY \notin Value
  /\ Enqueuer \cap Dequeuer = {}
  /\ {RingSize, Refresh, CloseTries} \subseteq Nat \ {0}
  /\ {Patience, MaxDraws, MaxCalls} \subseteq Nat

VARIABLES
  rings,        \* the linked rings
  head, tail,   \* the numbers of the first ring and of the last known one
  pc,           \* per thread, the place in enqueue or dequeue
  arg,          \* per enqueuer, the argument
  my,           \* per thread, the local variables
  put,          \* history: the values that were put
  before,       \* history: pairs of values whose puts did not overlap
  wasEmpty      \* history: per thread, no completed put has been left to take
                \* at some moment since its dequeue began

shared == <<rings, head, tail>>
history == <<put, before>>
vars == <<shared, pc, arg, my, history, wasEmpty>>

Slot == 0..RingSize - 1
CellType == [idx : Nat, unsafe : BOOLEAN, val : Value \cup {EMPTY}]
NoCell == [idx |-> 0, unsafe |-> FALSE, val |-> EMPTY]
NoTail == [index |-> 0, closed |-> FALSE]

(* rq, the index drawn, the cell as it was read, the tail as it was read, the
   head as fixState read it, r, and try_close *)
NoLocals == [rq |-> 1, index |-> 0, seen |-> NoCell, tt |-> NoTail, h |-> 0,
             r |-> 0, tries |-> 0]

EnqueueLabel == {"enq_tail", "enq_next", "enq_help", "enq_draw", "enq_idx", "enq_val",
                 "enq_head", "enq_cas", "enq_full", "enq_close", "enq_link", "enq_swing"}
(* the inner loop of dequeue, and what follows it *)
Waiting == {"deq_idx", "deq_val", "deq_look", "deq_take", "deq_mark", "deq_skip"}
DequeueLabel == {"deq_head", "deq_draw", "deq_close", "deq_test", "fix_tail",
                 "fix_head", "fix_cas", "deq_next", "deq_again",
                 "deq_swing", "empty"} \cup Waiting

LCRQTypeOK ==
  /\ \A r \in 1..Len(rings) :
       /\ rings[r].head \in Nat /\ rings[r].tail \in Nat
       /\ rings[r].closed \in BOOLEAN
       /\ rings[r].cell \in [Slot -> CellType]
       /\ \A c \in Slot : rings[r].cell[c].idx % RingSize = c
  /\ head \in 1..Len(rings) /\ tail \in 1..Len(rings)
  /\ pc \in [Thread -> EnqueueLabel \cup DequeueLabel \cup {"idle", "got"}]
  /\ arg \in [Enqueuer -> Value \cup {EMPTY}]
  /\ \A t \in Thread :
       /\ my[t].rq \in 1..Len(rings)
       /\ my[t].seen \in CellType
       /\ my[t].r \in 0..Patience + 1
       /\ my[t].tries \in 0..CloseTries
  /\ put \subseteq Value /\ before \subseteq Value \X Value
  /\ wasEmpty \in [Dequeuer -> BOOLEAN]

(* init_ring *)
EmptyRing ==
  [head |-> 0, tail |-> 0, closed |-> FALSE,
   cell |-> [c \in Slot |-> [idx |-> c, unsafe |-> FALSE, val |-> EMPTY]]]

Init ==                                                      \* SHARED_OBJECT_INIT
  /\ rings = <<EmptyRing>>
  /\ head = 1 /\ tail = 1
  /\ pc = [t \in Thread |-> "idle"]
  /\ arg = [t \in Enqueuer |-> EMPTY]
  /\ my = [t \in Thread |-> NoLocals]
  /\ put = {} /\ before = {}
  /\ wasEmpty = [t \in Dequeuer |-> FALSE]

Goto(t, label) == pc' = [pc EXCEPT ![t] = label]

(* the locals that are still used: those of a finished block are gone *)
KeepTries(t) == my' = [my EXCEPT ![t] = [NoLocals EXCEPT !.tries = my[t].tries]]
KeepIndex(t) ==
  my' = [my EXCEPT ![t] = [NoLocals EXCEPT !.rq = my[t].rq, !.index = my[t].index]]

Ring(t) == rings[my[t].rq]
IsLast(r) == r = Len(rings)
Cell(t) == Ring(t).cell[my[t].index % RingSize]
TailOf(t) == [index |-> Ring(t).tail, closed |-> Ring(t).closed]

(* CAS2 on the thread's cell: it still holds what the thread read of it *)
CellUnchanged(t) == Cell(t) = my[t].seen
SetCell(t, cell) == rings' = [rings EXCEPT ![my[t].rq].cell[my[t].index % RingSize] = cell]

(* the two loads of a cell; between them it may change *)
ReadIdx(t) == my' = [my EXCEPT ![t].seen.idx = Cell(t).idx, ![t].seen.unsafe = Cell(t).unsafe]
ReadVal(t) == my' = [my EXCEPT ![t].seen.val = Cell(t).val]

-----------------------------------------------------------------------------
(* What is in the queue *)

(* the values in cells no dequeuer has drawn the index of *)
InRing(r) ==
  {rings[r].cell[c].val : c \in {d \in Slot : rings[r].cell[d].idx >= rings[r].head}} \ {EMPTY}
Undrawn == UNION {InRing(r) : r \in 1..Len(rings)}

(* the values whose enqueue runs, and that no dequeue has taken meanwhile *)
Adding ==
  {arg[t] : t \in {e \in Enqueuer : pc[e] # "idle" /\ (pc[e] = "enq_swing" => arg[e] \in Undrawn)}}
Added == Undrawn \ Adding

-----------------------------------------------------------------------------
(* enqueue *)

EnqueueCall(t, v) ==
  /\ pc[t] = "idle"
  /\ v \notin put
  /\ put' = put \cup {v}
  /\ before' = before \cup (Added \X {v})
  /\ arg' = [arg EXCEPT ![t] = v]
  /\ Goto(t, "enq_tail")
  /\ UNCHANGED <<shared, my>>

EnqueueReturn(t) ==
  /\ Goto(t, "idle")
  /\ arg' = [arg EXCEPT ![t] = EMPTY]
  /\ my' = [my EXCEPT ![t] = NoLocals]
  /\ UNCHANGED history

(* a step inside enqueue that ends somewhere else in enqueue *)
EnqueueGoes(t, label) == Goto(t, label) /\ UNCHANGED <<arg, history>>

EnqueueTail(t) ==
  /\ pc[t] = "enq_tail"
  /\ my' = [my EXCEPT ![t].rq = tail]
  /\ EnqueueGoes(t, "enq_next")
  /\ UNCHANGED shared

EnqueueNext(t) ==
  /\ pc[t] = "enq_next"
  /\ EnqueueGoes(t, IF IsLast(my[t].rq) THEN "enq_draw" ELSE "enq_help")
  /\ UNCHANGED <<shared, my>>

(* mutant: tail moves on without a comparison *)
MoveTail(t) == tail' = tail + 1

(* CASPTR(&tail, rq, next) *)
SwingTail(t) == tail' = IF tail = my[t].rq THEN my[t].rq + 1 ELSE tail

EnqueueHelp(t) ==
  /\ pc[t] = "enq_help"
  /\ SwingTail(t)
  /\ KeepTries(t)
  /\ EnqueueGoes(t, "enq_tail")
  /\ UNCHANGED <<rings, head>>

EnqueueDraw(t) ==
  /\ pc[t] = "enq_draw"
  /\ rings' = [rings EXCEPT ![my[t].rq].tail = @ + 1]
  /\ my' = [my EXCEPT ![t].index = Ring(t).tail]
  /\ EnqueueGoes(t, IF Ring(t).closed THEN "enq_link" ELSE "enq_idx")
  /\ UNCHANGED <<head, tail>>

EnqueueIdx(t) ==
  /\ pc[t] = "enq_idx"
  /\ ReadIdx(t)
  /\ EnqueueGoes(t, "enq_val")
  /\ UNCHANGED shared

(* mutant: the unsafe bit is ignored *)
IgnoreUnsafe(cell) == "enq_cas"

(* an empty cell that is not of a later round may be filled; if it is unsafe,
   only if the dequeuer of this index is still to come *)
Fill(cell) == IF cell.unsafe THEN "enq_head" ELSE "enq_cas"

EnqueueVal(t) ==
  /\ pc[t] = "enq_val"
  /\ ReadVal(t)
  /\ EnqueueGoes(t, IF Cell(t).val = EMPTY /\ my[t].seen.idx <= my[t].index
                    THEN Fill(my[t].seen) ELSE "enq_full")
  /\ UNCHANGED shared

(* rq->head < t *)
EnqueueHead(t) ==
  /\ pc[t] = "enq_head"
  /\ EnqueueGoes(t, IF Ring(t).head < my[t].index THEN "enq_cas" ELSE "enq_full")
  /\ UNCHANGED <<shared, my>>

EnqueueCas(t) ==
  /\ pc[t] = "enq_cas"
  /\ \/ /\ CellUnchanged(t)
        /\ SetCell(t, [idx |-> my[t].index, unsafe |-> FALSE, val |-> arg[t]])
        /\ EnqueueReturn(t)
     \/ /\ ~CellUnchanged(t)
        /\ EnqueueGoes(t, "enq_full")
        /\ UNCHANGED <<rings, my>>
  /\ UNCHANGED <<head, tail>>

(* the signed t - h reaches RING_SIZE: close the ring, else draw again *)
EnqueueFull(t) ==
  /\ pc[t] = "enq_full"
  /\ IF my[t].index - Ring(t).head >= RingSize
       THEN /\ EnqueueGoes(t, "enq_close")
            /\ my' = [my EXCEPT ![t].seen = NoCell,
                                ![t].tries = IF @ < CloseTries THEN @ + 1 ELSE @]
       ELSE /\ EnqueueGoes(t, "enq_tail")
            /\ KeepTries(t)
  /\ UNCHANGED shared

(* close_crq: the compare-and-swap needs that nobody drew since; the tenth try
   is a test-and-set, and reports whether this thread did set the bit *)
EnqueueClose(t) ==
  /\ pc[t] = "enq_close"
  /\ \/ /\ ~Ring(t).closed
        /\ my[t].tries = CloseTries \/ Ring(t).tail = my[t].index + 1
        /\ rings' = [rings EXCEPT ![my[t].rq].closed = TRUE]
        /\ UNCHANGED my
        /\ EnqueueGoes(t, "enq_link")
     \/ /\ Ring(t).closed \/ (my[t].tries < CloseTries /\ Ring(t).tail # my[t].index + 1)
        /\ KeepTries(t)
        /\ EnqueueGoes(t, "enq_tail")
        /\ UNCHANGED rings
  /\ UNCHANGED <<head, tail>>

(* nrq, filled: the solo enqueue *)
NewRing(v) ==
  [EmptyRing EXCEPT !.tail = 1, !.cell[0] = [idx |-> 0, unsafe |-> FALSE, val |-> v]]

(* CASPTR(&rq->next, null, nrq) *)
EnqueueLink(t) ==
  /\ pc[t] = "enq_link"
  /\ IF IsLast(my[t].rq)
       THEN /\ rings' = Append(rings, NewRing(arg[t]))
            /\ my' = [my EXCEPT ![t] = [NoLocals EXCEPT !.rq = my[t].rq]]
            /\ EnqueueGoes(t, "enq_swing")
       ELSE /\ KeepTries(t)
            /\ EnqueueGoes(t, "enq_tail")
            /\ UNCHANGED rings
  /\ UNCHANGED <<head, tail>>

EnqueueSwing(t) ==
  /\ pc[t] = "enq_swing"
  /\ SwingTail(t)
  /\ EnqueueReturn(t)
  /\ UNCHANGED <<rings, head>>

-----------------------------------------------------------------------------
(* dequeue: the inner loop *)

(* how many indices dequeuers have drawn from all rings *)
Draws == FoldFunction(LAMBDA m, n : m + n, 0, [r \in DOMAIN rings |-> rings[r].head])

DequeueCall(t) ==
  /\ pc[t] = "idle"
  /\ Draws < MaxCalls
  /\ Goto(t, "deq_head")
  /\ UNCHANGED <<shared, my>>

DequeueHead(t) ==
  /\ pc[t] = "deq_head"
  /\ my' = [my EXCEPT ![t] = [NoLocals EXCEPT !.rq = head]]
  /\ Goto(t, "deq_draw")
  /\ UNCHANGED shared

DequeueDraw(t) ==
  /\ pc[t] = "deq_draw"
  /\ Draws < MaxDraws
  /\ rings' = [rings EXCEPT ![my[t].rq].head = @ + 1]
  /\ my' = [my EXCEPT ![t].index = Ring(t).head]
  /\ Goto(t, "deq_idx")
  /\ UNCHANGED <<head, tail>>

DequeueIdx(t) ==
  /\ pc[t] = "deq_idx"
  /\ ReadIdx(t)
  /\ Goto(t, "deq_val")
  /\ UNCHANGED shared

(* r & 1023 == 0: time to read tail again *)
TimeToLook(t) == my[t].r % Refresh = 0

(* no enqueuer has drawn this index, or the dequeuer has waited long enough,
   or the ring is closed *)
GiveUp(t, tt) == tt.index < my[t].index + 1 \/ my[t].r > Patience \/ tt.closed

(* mutant: the rounds of waiting are not counted *)
NotCounted(r) == r

(* ++r *)
Counted(r) == r + 1

(* an empty cell: leave it to the next round, or look at it again *)
SkipOrWait(t, tt) ==
  /\ my' = [my EXCEPT ![t].tt = tt, ![t].seen.val = EMPTY,
                      ![t].r = IF my[t].seen.unsafe \/ GiveUp(t, tt) THEN @ ELSE Counted(@)]
  /\ Goto(t, IF my[t].seen.unsafe \/ GiveUp(t, tt) THEN "deq_skip" ELSE "deq_idx")

DequeueVal(t) ==
  /\ pc[t] = "deq_val"
  /\ IF my[t].seen.idx <= my[t].index /\ Cell(t).val = EMPTY /\ ~TimeToLook(t)
       THEN SkipOrWait(t, my[t].tt)
       ELSE /\ ReadVal(t)
            /\ Goto(t, IF my[t].seen.idx > my[t].index THEN "deq_test"
                       ELSE IF Cell(t).val = EMPTY THEN "deq_look"
                       ELSE IF my[t].seen.idx = my[t].index THEN "deq_take"
                       ELSE "deq_mark")
  /\ UNCHANGED shared

DequeueLook(t) ==
  /\ pc[t] = "deq_look"
  /\ SkipOrWait(t, TailOf(t))
  /\ UNCHANGED shared

(* the index the cell is left with: its index in the next round *)
NextRound(t) == my[t].index + RingSize

(* the value of this index: take it *)
DequeueTake(t) ==
  /\ pc[t] = "deq_take"
  /\ \/ /\ CellUnchanged(t)
        /\ SetCell(t, [my[t].seen EXCEPT !.idx = NextRound(t), !.val = EMPTY])
        /\ my' = [my EXCEPT ![t] = [NoLocals EXCEPT !.seen.val = my[t].seen.val]]
        /\ Goto(t, "got")
     \/ /\ ~CellUnchanged(t)
        /\ Goto(t, "deq_idx")
        /\ UNCHANGED <<rings, my>>
  /\ UNCHANGED <<head, tail>>

(* a value of an earlier round: make the cell unsafe for this index *)
DequeueMark(t) ==
  /\ pc[t] = "deq_mark"
  /\ \/ /\ CellUnchanged(t)
        /\ SetCell(t, [my[t].seen EXCEPT !.unsafe = TRUE])
        /\ Goto(t, "deq_test")
     \/ /\ ~CellUnchanged(t)
        /\ Goto(t, "deq_idx")
        /\ UNCHANGED rings
  /\ UNCHANGED <<head, tail, my>>

(* out of patience: close the ring, unless its first round is not over *)
Impatient(t) ==
  /\ ~my[t].seen.unsafe
  /\ my[t].r > Patience
  /\ my[t].tt.closed \/ my[t].tt.index > RingSize

DequeueSkip(t) ==
  /\ pc[t] = "deq_skip"
  /\ \/ /\ CellUnchanged(t)
        /\ SetCell(t, [my[t].seen EXCEPT !.idx = NextRound(t)])
        /\ Goto(t, IF Impatient(t) THEN "deq_close" ELSE "deq_test")
     \/ /\ ~CellUnchanged(t)
        /\ Goto(t, "deq_idx")
        /\ UNCHANGED rings
  /\ UNCHANGED <<head, tail, my>>

DequeueClose(t) ==
  /\ pc[t] = "deq_close"
  /\ rings' = [rings EXCEPT ![my[t].rq].closed = TRUE]
  /\ Goto(t, "deq_test")
  /\ UNCHANGED <<head, tail, my>>

-----------------------------------------------------------------------------
(* dequeue: is the ring empty, and the queue? *)

(* tail_index(rq->tail) <= h + 1 *)
Drained(t) == Ring(t).tail <= my[t].index + 1

DequeueTest(t) ==
  /\ pc[t] = "deq_test"
  /\ KeepIndex(t)
  /\ Goto(t, IF Drained(t) THEN "fix_tail" ELSE "deq_head")
  /\ UNCHANGED shared

(* fixState: dequeuers that overran tail push it up to head *)
FixTail(t) ==
  /\ pc[t] = "fix_tail"
  /\ my' = [my EXCEPT ![t].tt = TailOf(t)]
  /\ Goto(t, "fix_head")
  /\ UNCHANGED shared

FixHead(t) ==
  /\ pc[t] = "fix_head"
  /\ my' = [my EXCEPT ![t].h = Ring(t).head]
  /\ Goto(t, "fix_cas")
  /\ UNCHANGED shared

(* h > t, where the closed bit makes t larger than any h *)
Overrun(t) == ~my[t].tt.closed /\ my[t].h > my[t].tt.index

(* the test of tail, and the compare-and-swap of it, fail for the same reason *)
FixCas(t) ==
  /\ pc[t] = "fix_cas"
  /\ IF TailOf(t) = my[t].tt
       THEN /\ rings' = IF Overrun(t) THEN [rings EXCEPT ![my[t].rq].tail = my[t].h]
                        ELSE rings
            /\ Goto(t, "deq_next")
       ELSE Goto(t, "fix_tail") /\ UNCHANGED rings
  /\ UNCHANGED <<head, tail, my>>

(* mutant: a drained ring is taken for an empty queue *)
EmptyRingIsEmpty(t) == "empty"

(* next == null: return EMPTY *)
AfterDrained(t) == IF IsLast(my[t].rq) THEN "empty" ELSE "deq_again"

DequeueNext(t) ==
  /\ pc[t] = "deq_next"
  /\ KeepIndex(t)
  /\ Goto(t, AfterDrained(t))
  /\ UNCHANGED shared

(* mutant: the first test of tail is trusted *)
TrustFirstTest(t) ==
  /\ pc[t] = "deq_again"
  /\ Goto(t, "deq_swing")
  /\ UNCHANGED <<shared, my>>

(* the second test: an enqueue may have filled a cell before the ring was
   closed, and after the first test *)
DequeueAgain(t) ==
  /\ pc[t] = "deq_again"
  /\ Goto(t, IF Drained(t) THEN "deq_swing" ELSE "deq_head")
  /\ UNCHANGED <<shared, my>>

DequeueSwing(t) ==
  /\ pc[t] = "deq_swing"
  /\ head' = IF head = my[t].rq THEN my[t].rq + 1 ELSE head
  /\ Goto(t, "deq_head")
  /\ UNCHANGED <<rings, tail, my>>

(* return val, or return -1; queue_get calls again in the second case *)
DequeueReturn(t) ==
  /\ pc[t] \in {"got", "empty"}
  /\ my' = [my EXCEPT ![t] = NoLocals]
  /\ Goto(t, "idle")
  /\ UNCHANGED shared

-----------------------------------------------------------------------------
Enqueuing(t) ==
  \/ EnqueueTail(t) \/ EnqueueNext(t) \/ EnqueueHelp(t) \/ EnqueueDraw(t)
  \/ EnqueueIdx(t) \/ EnqueueVal(t) \/ EnqueueHead(t) \/ EnqueueCas(t)
  \/ EnqueueFull(t) \/ EnqueueClose(t) \/ EnqueueLink(t) \/ EnqueueSwing(t)

Dequeuing(t) ==
  /\ \/ DequeueHead(t) \/ DequeueDraw(t) \/ DequeueIdx(t) \/ DequeueVal(t)
     \/ DequeueLook(t) \/ DequeueTake(t) \/ DequeueMark(t) \/ DequeueSkip(t)
     \/ DequeueClose(t) \/ DequeueTest(t) \/ FixTail(t) \/ FixHead(t)
     \/ FixCas(t) \/ DequeueNext(t) \/ DequeueAgain(t)
     \/ DequeueSwing(t) \/ DequeueReturn(t)
  /\ UNCHANGED <<arg, history>>

Remember ==
  wasEmpty' = [t \in Dequeuer |-> pc'[t] \in DequeueLabel /\ (wasEmpty[t] \/ Added' = {})]

EnqueueStep(t) == Enqueuing(t) /\ Remember
DequeueStep(t) == Dequeuing(t) /\ Remember

Next ==
  \/ \E t \in Enqueuer : EnqueueStep(t) \/ (\E v \in Value : EnqueueCall(t, v) /\ Remember)
  \/ \E t \in Dequeuer :
       DequeueStep(t) \/ (DequeueCall(t) /\ UNCHANGED <<arg, history>> /\ Remember)

Spec == Init /\ [][Next]_vars

-----------------------------------------------------------------------------
(* Properties *)

(* dequeue leaves a ring for the next one only when nothing is left in it and
   nothing can come: no value waits in a ring before head, and no enqueue
   holds an index of such a ring that is still to be drawn by a dequeue.  The
   second test of tail in dequeue (lcrq.c:377) is there for that. *)
NothingBehind ==
  \A r \in 1..head - 1 :
    /\ rings[r].closed
    /\ InRing(r) = {}
    /\ \A t \in Enqueuer :
         pc[t] \in {"enq_idx", "enq_val", "enq_head", "enq_cas"} /\ my[t].rq = r =>
           my[t].index < rings[r].head

(* dequeue returns -1 only if at some moment of the call every value whose
   enqueue had returned was in the hands of another dequeue: queue_get goes
   back to sleep on the strength of that. *)
EmptyIsHonest == \A t \in Dequeuer : pc[t] = "empty" => wasEmpty[t]

(* The value a dequeue takes is decided when its index and the value meet at
   the cell, whichever comes second. *)
Met(t) ==
  CASE pc[t] \in Waiting /\ Cell(t).idx = my[t].index -> Cell(t).val
    [] pc[t] = "got" -> my[t].seen.val
    [] OTHER -> EMPTY

Overlap == INSTANCE OverlapQueue WITH
  Thread <- Dequeuer, None <- EMPTY, adding <- Adding, added <- Added,
  taken <- [t \in Dequeuer |-> Met(t)]

(* The list of rings is a linearizable queue: each value comes out of exactly
   one dequeue, and never after a value whose enqueue began when its own had
   returned, across full, closed and unsafe cells and rings. *)
OverlapRefinement == Overlap!Spec
=============================================================================
