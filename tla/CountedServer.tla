---------------------------- MODULE CountedServer ----------------------------
(***************************************************************************)
(* The servers that put a futex counter around a queue which does not      *)
(* block: ms-queue-http-server.c (the word is futex_addr) and lcrq.c with  *)
(* lcrq-server.c (the word is waiter).  queue_put enqueues, adds one to    *)
(* the counter and wakes one sleeper if the counter was 0; queue_get       *)
(* sleeps while the counter is 0, dequeues, starts over if the queue was   *)
(* empty after all, and subtracts one.                                     *)
(*                                                                         *)
(* enqueue and dequeue are one step each here (module MSQueue shows that   *)
(* they may be); the additions and subtractions are steps of their own, so *)
(* that the counter runs behind the queue.                                 *)
(***************************************************************************)
EXTENDS Integers, Sequences, FiniteSets

CONSTANTS
  Worker,           \* the thread pool
  Conn,             \* the descriptors accept can return
  Silent,           \* the descriptors whose client never sends a request
  NONE,             \* "the worker has no connection"
  MaxFdopenFailure  \* bound on the failures of fdopen for want of memory

ASSUME WorkerAssumption == IsFiniteSet(Worker) /\ Worker # {}
ASSUME ConnAssumption == NONE \notin Conn /\ Silent \subseteq Conn
ASSUME FailureAssumption == MaxFdopenFailure \in Nat

VARIABLES
  queue,      \* the descriptors enqueued and not yet dequeued
  counter,    \* futex_addr, or waiter
  mpc,        \* the place of the main thread
  pc,         \* per worker, the place in queue_get and handleConnection
  conn,       \* per worker, the descriptor it dequeued
  fd,         \* per descriptor: free, accepted, open, leaked
  failures,   \* fdopen failures so far
  exited      \* exit() was called

vars == <<queue, counter, mpc, pc, conn, fd, failures, exited>>

CountedTypeOK ==
  /\ queue \in Seq(Conn)
  /\ counter \in Int
  /\ mpc \in {"accept", "add", "signal"}
  /\ pc \in [Worker -> {"wait", "asleep", "test", "dequeue", "subtract",
                        "handle", "serve", "dead"}]
  /\ conn \in [Worker -> Conn \cup {NONE}]
  /\ fd \in [Conn -> {"free", "accepted", "open", "leaked"}]
  /\ failures \in 0..MaxFdopenFailure
  /\ exited \in BOOLEAN

Init ==
  /\ queue = <<>>
  /\ counter = 0
  /\ mpc = "accept"
  /\ pc = [w \in Worker |-> "wait"]
  /\ conn = [w \in Worker |-> NONE]
  /\ fd = [c \in Conn |-> "free"]
  /\ failures = 0
  /\ exited = FALSE

Main(label) == ~exited /\ mpc = label
At(w, label) == ~exited /\ pc[w] = label
Goto(w, label) == pc' = [pc EXCEPT ![w] = label]
SetFd(c, state) == fd' = [fd EXCEPT ![c] = state]

Sleepers == {w \in Worker : pc[w] = "asleep"}

-----------------------------------------------------------------------------
(* mainLoop and queue_put *)

(* mutant: accept failed, and its -1 is enqueued all the same *)
EnqueueFailed(c) ==
  /\ Main("accept")
  /\ queue' = Append(queue, NONE)
  /\ mpc' = "add"
  /\ UNCHANGED <<counter, pc, conn, fd, failures, exited>>

(* accept returned a descriptor, and queue_put enqueues it *)
Enqueue(c) ==
  /\ Main("accept")
  /\ fd[c] = "free"
  /\ SetFd(c, "accepted")
  /\ queue' = Append(queue, c)
  /\ mpc' = "add"
  /\ UNCHANGED <<counter, pc, conn, failures, exited>>

(* mutant: the test is made on the value after the addition *)
AddThenTest ==
  /\ Main("add")
  /\ counter' = counter + 1
  /\ mpc' = IF counter' = 0 THEN "signal" ELSE "accept"
  /\ UNCHANGED <<queue, pc, conn, fd, failures, exited>>

(* __sync_fetch_and_add, which returns the value before the addition *)
Add ==
  /\ Main("add")
  /\ counter' = counter + 1
  /\ mpc' = IF counter = 0 THEN "signal" ELSE "accept"
  /\ UNCHANGED <<queue, pc, conn, fd, failures, exited>>

(* futex_signal: one sleeper, of the kernel's choice *)
Signal ==
  /\ Main("signal")
  /\ IF Sleepers = {} THEN UNCHANGED pc ELSE \E w \in Sleepers : Goto(w, "test")
  /\ mpc' = "accept"
  /\ UNCHANGED <<queue, counter, conn, fd, failures, exited>>

-----------------------------------------------------------------------------
(* queue_get *)

(* mutant: the comparison and the sleep of the kernel are not one step *)
WaitUnchecked(w) ==
  /\ At(w, "wait")
  /\ Goto(w, "asleep")
  /\ UNCHANGED <<queue, counter, mpc, conn, fd, failures, exited>>

(* cond_wait(&counter, 0): FUTEX_WAIT compares and sleeps in one step *)
Wait(w) ==
  /\ At(w, "wait")
  /\ Goto(w, IF counter = 0 THEN "asleep" ELSE "test")
  /\ UNCHANGED <<queue, counter, mpc, conn, fd, failures, exited>>

(* a signal handler or the kernel ends the sleep *)
Interrupted(w) ==
  /\ At(w, "asleep")
  /\ Goto(w, "test")
  /\ UNCHANGED <<queue, counter, mpc, conn, fd, failures, exited>>

(* while (counter == 0) *)
Test(w) ==
  /\ At(w, "test")
  /\ Goto(w, IF counter = 0 THEN "wait" ELSE "dequeue")
  /\ UNCHANGED <<queue, counter, mpc, conn, fd, failures, exited>>

Dequeue(w) ==
  /\ At(w, "dequeue")
  /\ queue # <<>>
  /\ conn' = [conn EXCEPT ![w] = Head(queue)]
  /\ queue' = Tail(queue)
  /\ Goto(w, "subtract")
  /\ UNCHANGED <<counter, mpc, fd, failures, exited>>

(* mutant: dequeue returned -1, and the counter is decremented all the same *)
SubtractEmpty(w) ==
  /\ At(w, "dequeue")
  /\ queue = <<>>
  /\ counter' = counter - 1
  /\ Goto(w, "wait")
  /\ UNCHANGED <<queue, mpc, conn, fd, failures, exited>>

(* dequeue returned -1: goto waitLoop *)
DequeueEmpty(w) ==
  /\ At(w, "dequeue")
  /\ queue = <<>>
  /\ Goto(w, "wait")
  /\ UNCHANGED <<queue, counter, mpc, conn, fd, failures, exited>>

Subtract(w) ==
  /\ At(w, "subtract")
  /\ counter' = counter - 1
  /\ Goto(w, "handle")
  /\ UNCHANGED <<queue, mpc, conn, fd, failures, exited>>

-----------------------------------------------------------------------------
(* handleConnection *)

Open(w) ==
  /\ At(w, "handle")
  /\ SetFd(conn[w], "open")
  /\ Goto(w, "serve")
  /\ UNCHANGED <<queue, counter, mpc, conn, failures, exited>>

(* fdopen failed: pthread_exit, and nobody closes the descriptor *)
FdopenFails(w) ==
  /\ At(w, "handle")
  /\ failures < MaxFdopenFailure
  /\ failures' = failures + 1
  /\ SetFd(conn[w], "leaked")
  /\ conn' = [conn EXCEPT ![w] = NONE]
  /\ Goto(w, "dead")
  /\ UNCHANGED <<queue, counter, mpc, exited>>

Close(w) ==
  /\ SetFd(conn[w], "free")
  /\ conn' = [conn EXCEPT ![w] = NONE]
  /\ Goto(w, "wait")
  /\ UNCHANGED <<queue, counter, mpc, failures, exited>>

Serve(w) == At(w, "serve") /\ conn[w] \notin Silent /\ Close(w)

(* SIGINT ends fgets: the connection is closed with its request unread *)
SigintInRead(w) == At(w, "serve") /\ Close(w)

(* exit(1): SIGINT in accept ends mainLoop and "forget all that poisoning!";
   accept or getpeername failed; a worker or main ran out of memory *)
Exit ==
  /\ ~exited
  /\ exited' = TRUE
  /\ UNCHANGED <<queue, counter, mpc, pc, conn, fd, failures>>

-----------------------------------------------------------------------------
MainStep == Add \/ Signal

WorkerStep(w) ==
  \/ Wait(w) \/ Test(w) \/ Dequeue(w) \/ DequeueEmpty(w) \/ Subtract(w)
  \/ Open(w) \/ Serve(w)

Environment ==
  \/ \E c \in Conn : Enqueue(c)
  \/ \E w \in Worker : Interrupted(w) \/ FdopenFails(w) \/ SigintInRead(w)
  \/ Exit

Next == MainStep \/ (\E w \in Worker : WorkerStep(w)) \/ Environment

Spec == Init /\ [][Next]_vars

(* Every thread runs; clients, signals and failures come as they like. *)
FairSpec ==
  /\ Spec
  /\ WF_vars(MainStep)
  /\ \A w \in Worker : WF_vars(WorkerStep(w))

-----------------------------------------------------------------------------
(* Properties *)

Subtracting == {w \in Worker : pc[w] = "subtract"}

(* The counter runs behind the queue by exactly the operations that are half
   done: it misses the connection main has enqueued and not yet added, and
   still has those the workers have dequeued and not yet subtracted.  It may
   be negative, or positive while the queue is empty. *)
CounterAccounts ==
  counter = Len(queue) + Cardinality(Subtracting) - (IF mpc = "add" THEN 1 ELSE 0)

AllAsleep == \A w \in Worker : pc[w] = "asleep"

(* The servers never go to sleep on a connection: when every worker sleeps and
   main is in accept, the queue is empty.  queue_put signals only on the
   transition of the counter from 0, so this needs that no interleaving of
   add, subtract and sleep hides that transition. *)
NotAllAsleep == AllAsleep /\ mpc = "accept" => queue = <<>>

IsHandled(c) == fd[c] # "accepted" \/ exited

(* As long as no fdopen fails, every accepted connection is eventually taken
   up by a worker, or the process exits. *)
AcceptedIsHandled ==
  \A c \in Conn : fd[c] = "accepted" ~> IsHandled(c) \/ failures > 0

(* What the paper says of this protocol (extended-abstract.tex:360): "the
   accepting thread only has to wakeup threads when the queue transitions from
   empty to nonempty".  If that were enough, a connection would be taken up
   whenever fewer clients are silent than there are workers, as it is in the
   locked server. *)
WakeupOnTransitionSuffices ==
  Cardinality(Silent) < Cardinality(Worker) => AcceptedIsHandled

(* What the comment of handleConnection says of a failed fdopen ("don't kill
   the whole system because we want to try to clean up",
   ms-queue-http-server.c:403): it costs one worker and one connection, and
   the other workers go on. *)
FdopenFailureIsLocal ==
  MaxFdopenFailure < Cardinality(Worker) =>
    \A c \in Conn : fd[c] = "accepted" ~> IsHandled(c)
=============================================================================
