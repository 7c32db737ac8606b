----------------------------- MODULE LockedQueue -----------------------------
(***************************************************************************)
(* The blocking thread queue of http-server.c: a singly linked list of     *)
(* messages with first and last pointers and a length, one mutex around    *)
(* every access, and a condition variable on which queue_get sleeps while  *)
(* the list is empty.                                                      *)
(*                                                                         *)
(* Threads interleave at mutex operations and, inside the critical         *)
(* section, at the statements that matter for the wake-up protocol: the    *)
(* append, the broadcast and the increment of length are three steps, and  *)
(* so are the removal of a message and its release.  Messages are heap     *)
(* cells: calloc takes a cell, free gives it back, and a later calloc may  *)
(* return it again.                                                        *)
(***************************************************************************)
EXTENDS Naturals, Sequences, FiniteSets

CONSTANTS
  Thread,       \* every thread that may call the queue
  Node,         \* the heap cells calloc can return
  Value,        \* the ints a message can carry: sockets and QUEUE_POISON
  NULL,         \* the null pointer, also "no thread" and "no value"
  MaxSpurious   \* bound on the spurious returns of pthread_cond_wait

ASSUME NullAssumption == NULL \notin Node /\ NULL \notin Thread /\ NULL \notin Value
ASSUME MaxSpuriousAssumption == MaxSpurious \in Nat

VARIABLES
  pc,           \* per thread, the place inside queue_put, queue_get, queue_destroy
  msg,          \* per thread, the local variable msg
  sock,         \* per thread, the value queue_get returned, while it is in use
  mutex,        \* q->mutex: the owner, or NULL
  sleepers,     \* the threads asleep on q->cond
  first, last,  \* q->first and q->last
  length,       \* q->length
  next, val,    \* the fields next and sock of every heap cell
  heap,         \* the cells that are allocated
  order,        \* history: the cells on the list, in the order of their puts
  spurious,     \* spurious wake-ups so far
  exited        \* the process is gone: exit() was called

listVars == <<first, last, length, next, val, heap, order>>
vars == <<pc, msg, sock, mutex, sleepers, listVars, spurious, exited>>

Label == {"idle", "put_lock", "put_append", "put_wake", "put_count",
          "get_lock", "get_test", "get_wait", "get_free", "got",
          "destroy_lock", "destroy_loop", "destroyed"}

(* The places where the thread owns the mutex. *)
Holding == {"put_append", "put_wake", "put_count", "get_test", "get_free",
            "destroy_loop"}

(* Except for the places in the code, which differ in FutexQueue. *)
DataTypeOK ==
  /\ msg \in [Thread -> Node \cup {NULL}]
  /\ sock \in [Thread -> Value \cup {NULL}]
  /\ mutex \in Thread \cup {NULL}
  /\ sleepers \in SUBSET Thread
  /\ first \in Node \cup {NULL}
  /\ last \in Node \cup {NULL}
  /\ length \in Nat
  /\ next \in [Node -> Node \cup {NULL}]
  /\ val \in [Node -> Value \cup {NULL}]
  /\ heap \in SUBSET Node
  /\ order \in Seq(Node)
  /\ spurious \in 0..MaxSpurious
  /\ exited \in BOOLEAN

TypeOK == pc \in [Thread -> Label] /\ DataTypeOK

Init ==                                                      \* queue_init
  /\ pc = [t \in Thread |-> "idle"]
  /\ msg = [t \in Thread |-> NULL]
  /\ sock = [t \in Thread |-> NULL]
  /\ mutex = NULL
  /\ sleepers = {}
  /\ first = NULL /\ last = NULL /\ length = 0
  /\ next = [n \in Node |-> NULL]
  /\ val = [n \in Node |-> NULL]
  /\ heap = {}
  /\ order = <<>>
  /\ spurious = 0
  /\ exited = FALSE

At(t, label) == ~exited /\ pc[t] = label
Goto(t, label) == pc' = [pc EXCEPT ![t] = label]

(* free: the contents of the cell are gone with it *)
Free(n) ==
  /\ heap' = heap \ {n}
  /\ next' = [next EXCEPT ![n] = NULL]
  /\ val' = [val EXCEPT ![n] = NULL]

Lock(t) == mutex = NULL /\ mutex' = t
Unlock == mutex' = NULL

-----------------------------------------------------------------------------
(* queue_put *)

(* calloc, and the socket stored in the new message *)
PutAlloc(t, s) ==
  /\ At(t, "idle")
  /\ \E n \in Node \ heap :
       /\ heap' = heap \cup {n}
       /\ val' = [val EXCEPT ![n] = s]
       /\ next' = [next EXCEPT ![n] = NULL]
       /\ msg' = [msg EXCEPT ![t] = n]
  /\ Goto(t, "put_lock")
  /\ UNCHANGED <<sock, mutex, sleepers, first, last, length, order, spurious, exited>>

(* calloc returned NULL: die("Out of memory") ends the process *)
PutOutOfMemory(t) ==
  /\ At(t, "idle")
  /\ exited' = TRUE
  /\ UNCHANGED <<pc, msg, sock, mutex, sleepers, listVars, spurious>>

PutLock(t) ==
  /\ At(t, "put_lock")
  /\ Lock(t)
  /\ Goto(t, "put_append")
  /\ UNCHANGED <<msg, sock, sleepers, listVars, spurious, exited>>

(* mutant: the new message goes to the front of the list *)
PutPrepend(t) ==
  /\ At(t, "put_append")
  /\ next' = [next EXCEPT ![msg[t]] = first]
  /\ first' = msg[t]
  /\ last' = IF last = NULL THEN msg[t] ELSE last
  /\ order' = Append(order, msg[t])
  /\ Goto(t, "put_wake")
  /\ UNCHANGED <<msg, sock, mutex, sleepers, length, val, heap, spurious, exited>>

PutAppend(t) ==
  /\ At(t, "put_append")
  /\ IF last = NULL
       THEN first' = msg[t] /\ UNCHANGED next
       ELSE next' = [next EXCEPT ![last] = msg[t]] /\ UNCHANGED first
  /\ last' = msg[t]
  /\ order' = Append(order, msg[t])
  /\ Goto(t, "put_wake")
  /\ UNCHANGED <<msg, sock, mutex, sleepers, length, val, heap, spurious, exited>>

(* mutant: pthread_cond_signal, which wakes one thread *)
SignalOne == {{t} : t \in sleepers} \cup {w \in {{}} : sleepers = {}}

(* the sets of threads pthread_cond_broadcast may wake: all that sleep *)
Broadcast == {sleepers}

(* the broadcast, issued only when length says the queue was empty *)
PutWake(t) ==
  /\ At(t, "put_wake")
  /\ \E woken \in IF length = 0 THEN Broadcast ELSE {{}} :
       /\ pc' = [u \in Thread |-> IF u = t THEN "put_count"
                                  ELSE IF u \in woken THEN "get_lock"
                                  ELSE pc[u]]
       /\ sleepers' = sleepers \ woken
  /\ UNCHANGED <<msg, sock, mutex, listVars, spurious, exited>>

(* mutant: the increment of length is forgotten *)
PutUncounted(t) ==
  /\ At(t, "put_count")
  /\ Unlock
  /\ msg' = [msg EXCEPT ![t] = NULL]
  /\ Goto(t, "idle")
  /\ UNCHANGED <<sock, sleepers, listVars, spurious, exited>>

PutCount(t) ==
  /\ At(t, "put_count")
  /\ length' = length + 1
  /\ Unlock
  /\ msg' = [msg EXCEPT ![t] = NULL]
  /\ Goto(t, "idle")
  /\ UNCHANGED <<sock, sleepers, first, last, next, val, heap, order, spurious, exited>>

-----------------------------------------------------------------------------
(* queue_get *)

GetCall(t) ==
  /\ At(t, "idle")
  /\ Goto(t, "get_lock")
  /\ UNCHANGED <<msg, sock, mutex, sleepers, listVars, spurious, exited>>

(* the first lock of the mutex, and the one inside pthread_cond_wait *)
GetLock(t) ==
  /\ At(t, "get_lock")
  /\ Lock(t)
  /\ Goto(t, "get_test")
  /\ UNCHANGED <<msg, sock, sleepers, listVars, spurious, exited>>

(* pthread_cond_wait gives the mutex up and goes to sleep in one step *)
GetWait(t) ==
  /\ At(t, "get_test")
  /\ first = NULL
  /\ Unlock
  /\ sleepers' = sleepers \cup {t}
  /\ Goto(t, "get_wait")
  /\ UNCHANGED <<msg, sock, listVars, spurious, exited>>

(* POSIX lets pthread_cond_wait return although nobody signalled *)
SpuriousWakeup(t) ==
  /\ At(t, "get_wait")
  /\ spurious < MaxSpurious
  /\ spurious' = spurious + 1
  /\ sleepers' = sleepers \ {t}
  /\ Goto(t, "get_lock")
  /\ UNCHANGED <<msg, sock, mutex, listVars, exited>>

(* mutants: the branch for an emptied list forgets last; length is not
   decremented *)
KeepLast(rest) == length' = length - 1 /\ UNCHANGED last
KeepLength(rest) ==
  IF rest = NULL THEN last' = NULL /\ length' = 0 ELSE UNCHANGED <<last, length>>

(* what removing the first message does to last and length *)
Shorten(rest) ==
  IF rest = NULL THEN last' = NULL /\ length' = 0
                 ELSE length' = length - 1 /\ UNCHANGED last

GetRemove(t) ==
  /\ At(t, "get_test")
  /\ first # NULL
  /\ msg' = [msg EXCEPT ![t] = first]
  /\ first' = next[first]
  /\ Shorten(next[first])
  /\ order' = Tail(order)
  /\ Goto(t, "get_free")
  /\ UNCHANGED <<sock, mutex, sleepers, next, val, heap, spurious, exited>>

(* mutant: the message is never freed *)
GetLeak(t) ==
  /\ At(t, "get_free")
  /\ sock' = [sock EXCEPT ![t] = val[msg[t]]]
  /\ msg' = [msg EXCEPT ![t] = NULL]
  /\ Unlock
  /\ Goto(t, "got")
  /\ UNCHANGED <<sleepers, listVars, spurious, exited>>

GetFree(t) ==
  /\ At(t, "get_free")
  /\ sock' = [sock EXCEPT ![t] = val[msg[t]]]
  /\ Free(msg[t])
  /\ msg' = [msg EXCEPT ![t] = NULL]
  /\ Unlock
  /\ Goto(t, "got")
  /\ UNCHANGED <<sleepers, first, last, length, order, spurious, exited>>

(* the caller is done with the socket it got *)
GetReturn(t) ==
  /\ At(t, "got")
  /\ sock' = [sock EXCEPT ![t] = NULL]
  /\ Goto(t, "idle")
  /\ UNCHANGED <<msg, mutex, sleepers, listVars, spurious, exited>>

-----------------------------------------------------------------------------
(* queue_destroy *)

DestroyCall(t) ==
  /\ At(t, "idle")
  /\ Goto(t, "destroy_lock")
  /\ UNCHANGED <<msg, sock, mutex, sleepers, listVars, spurious, exited>>

DestroyLock(t) ==
  /\ At(t, "destroy_lock")
  /\ Lock(t)
  /\ Goto(t, "destroy_loop")
  /\ UNCHANGED <<msg, sock, sleepers, listVars, spurious, exited>>

DestroyFree(t) ==
  /\ At(t, "destroy_loop")
  /\ first # NULL
  /\ first' = next[first]
  /\ Free(first)
  /\ order' = Tail(order)
  /\ UNCHANGED <<pc, msg, sock, mutex, sleepers, last, length, spurious, exited>>

(* the list is empty: reset it, unlock, destroy the mutex and the condition *)
DestroyEnd(t) ==
  /\ At(t, "destroy_loop")
  /\ first = NULL
  /\ last' = NULL
  /\ length' = 0
  /\ Unlock
  /\ Goto(t, "destroyed")
  /\ UNCHANGED <<msg, sock, sleepers, first, next, val, heap, order, spurious, exited>>

-----------------------------------------------------------------------------
(* die() or exit(), called by any thread for a reason of its own *)
Exit ==
  /\ ~exited
  /\ exited' = TRUE
  /\ UNCHANGED <<pc, msg, sock, mutex, sleepers, listVars, spurious>>

(* What a thread does once it is inside a queue function. *)
Inside(t) ==
  \/ PutLock(t) \/ PutAppend(t) \/ PutWake(t) \/ PutCount(t)
  \/ GetLock(t) \/ GetWait(t) \/ GetRemove(t) \/ GetFree(t)
  \/ DestroyLock(t) \/ DestroyFree(t) \/ DestroyEnd(t)

(* queue_destroy may be called only by the last thread that uses the queue. *)
Quiescent(t) == \A u \in Thread \ {t} : pc[u] = "idle"

(* No call is made once the queue is being destroyed. *)
Usable == \A u \in Thread : pc[u] \notin {"destroy_lock", "destroy_loop", "destroyed"}

Call(t) ==
  /\ Usable
  /\ \/ \E s \in Value : PutAlloc(t, s)
     \/ PutOutOfMemory(t)
     \/ GetCall(t)
     \/ Quiescent(t) /\ DestroyCall(t)

Next ==
  \/ \E t \in Thread : Call(t) \/ Inside(t) \/ SpuriousWakeup(t) \/ GetReturn(t)
  \/ Exit

Spec == Init /\ [][Next]_vars

-----------------------------------------------------------------------------
(* Properties *)

OnList == {order[i] : i \in 1..Len(order)}

(* the thread's message is its own: not yet, or no longer, on the list *)
Owns(t) == pc[t] \in {"put_lock", "put_append", "get_free"}

Destroying == \E t \in Thread : pc[t] = "destroy_loop"

(* Walking the pointers from first along next meets exactly the messages
   that were put and not yet taken, each once, in the order of the puts, and
   last is the end of that walk (queue_put and queue_get keep the two ends of
   the list together; queue_destroy resets last only after its loop). *)
ListShape ==
  /\ first = IF order = <<>> THEN NULL ELSE order[1]
  /\ \A i \in 1..Len(order) :
       next[order[i]] = IF i = Len(order) THEN NULL ELSE order[i + 1]
  /\ \A i, j \in 1..Len(order) : order[i] = order[j] => i = j
  /\ Destroying \/ last = IF order = <<>> THEN NULL ELSE order[Len(order)]

(* length is the number of messages on the list, except that a put that has
   appended its message and not yet reached length++ is still to be counted
   (the test length == 0 of queue_put depends on exactly that order). *)
LengthAccounts ==
  \/ Destroying
  \/ length = IF \E t \in Thread : pc[t] \in {"put_wake", "put_count"}
              THEN Len(order) - 1 ELSE Len(order)

(* Every allocated message is on the list or is the message of exactly one
   thread, and none of these is freed: no leak, no double free, no use after
   free, although cells are reused by calloc. *)
HeapAccounts ==
  /\ heap = OnList \cup {msg[t] : t \in {u \in Thread : Owns(u)}}
  /\ \A t \in Thread : Owns(t) =>
       /\ msg[t] # NULL /\ msg[t] \notin OnList
       /\ \A u \in Thread \ {t} : Owns(u) => msg[u] # msg[t]

(* No thread sleeps in queue_get while a message is on the list, unless the
   put that appended it is still about to decide on the broadcast: the
   broadcast on the transition from empty to non-empty is enough ("If the
   queue was previously empty, wakep up any threads that might be sleeping",
   http-server.c:125). *)
NoSleeperWithWork ==
  sleepers # {} /\ order # <<>> => \E t \in Thread : pc[t] = "put_wake"

(* The value a get has in its hands: from the removal to the return. *)
Taken(t) ==
  CASE pc[t] = "get_free" -> val[msg[t]]
    [] pc[t] = "got" -> sock[t]
    [] OTHER -> NULL

Fifo == INSTANCE FifoQueue WITH
  None <- NULL,
  queue <- [i \in 1..Len(order) |-> val[order[i]]],
  taken <- [t \in Thread |-> Taken(t)]

(* The locked list implements the abstract FIFO queue: each put value is
   returned by exactly one queue_get and in the order of the puts, whatever
   the interleaving, the reuse of cells and the spurious wake-ups. *)
FifoRefinement == Fifo!Spec
=============================================================================
