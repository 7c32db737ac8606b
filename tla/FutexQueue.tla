----------------------------- MODULE FutexQueue -----------------------------
(***************************************************************************)
(* The queue of http-server-futex.c: the locked list of LockedQueue, with  *)
(* the condition variable replaced by the futex functions of libwait.c.    *)
(* queue_get releases the mutex, calls wait(&futex_addr) and takes the     *)
(* mutex again; queue_put calls broadcast(&futex_addr) when length is 0.   *)
(*                                                                         *)
(* wait reads the word and asks the kernel to sleep if it still holds the  *)
(* value read.  Nothing ever assigns futex_addr after queue_init, so the   *)
(* kernel's test cannot notice a broadcast that came before the sleep.     *)
(***************************************************************************)
EXTENDS LockedQueue

CONSTANT MaxWakeup   \* MAX_WAKEUP: how many sleepers one broadcast wakes

ASSUME MaxWakeupAssumption == MaxWakeup \in Nat \ {0}

VARIABLES
  futex_addr,   \* the futex word
  old_val,      \* per thread, the local variable of wait
  missed        \* history: the threads a broadcast has passed over since they
                \* found the list empty

futexVars == <<futex_addr, old_val, missed>>
queueVars == <<vars, futexVars>>

FutexTypeOK ==
  /\ pc \in [Thread -> Label \cup {"wait_read", "wait_sleep"}]
  /\ DataTypeOK
  /\ sleepers \subseteq {t \in Thread : pc[t] = "get_wait"}
  /\ mutex = NULL \/ pc[mutex] \in Holding
  /\ futex_addr = 0
  /\ old_val \in [Thread -> {0}]
  /\ missed \subseteq Thread

FutexInit ==
  /\ Init
  /\ futex_addr = 0
  /\ old_val = [t \in Thread |-> 0]
  /\ missed = {}

(* between the unlock and the sleep *)
InGap(t) == pc[t] \in {"wait_read", "wait_sleep"}

(* mutant: the mutex stays locked during wait *)
GetHolding(t) ==
  /\ At(t, "get_test")
  /\ first = NULL
  /\ Goto(t, "wait_read")
  /\ missed' = missed \ {t}
  /\ UNCHANGED <<msg, sock, mutex, sleepers, listVars, spurious, exited, futex_addr, old_val>>

(* the list is empty: queue_get unlocks the mutex before it calls wait *)
GetUnlock(t) ==
  /\ At(t, "get_test")
  /\ first = NULL
  /\ Unlock
  /\ Goto(t, "wait_read")
  /\ missed' = missed \ {t}
  /\ UNCHANGED <<msg, sock, sleepers, listVars, spurious, exited, futex_addr, old_val>>

WaitRead(t) ==
  /\ At(t, "wait_read")
  /\ old_val' = [old_val EXCEPT ![t] = futex_addr]
  /\ Goto(t, "wait_sleep")
  /\ UNCHANGED <<msg, sock, mutex, sleepers, listVars, spurious, exited, futex_addr, missed>>

(* FUTEX_WAIT: sleep if the word still has the value, else return *)
WaitSleep(t) ==
  /\ At(t, "wait_sleep")
  /\ IF futex_addr = old_val[t]
       THEN sleepers' = sleepers \cup {t} /\ Goto(t, "get_wait")
       ELSE Goto(t, "get_lock") /\ UNCHANGED sleepers
  /\ UNCHANGED <<msg, sock, mutex, listVars, spurious, exited, futexVars>>

(* FUTEX_WAKE of at most n threads: the sets the kernel may choose *)
FutexWake(n) ==
  {S \in SUBSET sleepers :
     Cardinality(S) = IF Cardinality(sleepers) < n THEN Cardinality(sleepers) ELSE n}

(* mutant: the test is made as if length++ came before it *)
OneCounted == length = 1

(* the test of queue_put: the list was empty before this message *)
WasEmpty == length = 0

BroadcastFutex(t) ==
  /\ At(t, "put_wake")
  /\ IF WasEmpty
       THEN \E woken \in FutexWake(MaxWakeup) :
              /\ pc' = [u \in Thread |-> IF u = t THEN "put_count"
                                         ELSE IF u \in woken THEN "get_lock"
                                         ELSE pc[u]]
              /\ sleepers' = sleepers \ woken
              /\ missed' = missed \cup (sleepers \ woken) \cup {u \in Thread : InGap(u)}
       ELSE Goto(t, "put_count") /\ UNCHANGED <<sleepers, missed>>
  /\ UNCHANGED <<msg, sock, mutex, listVars, spurious, exited, futex_addr, old_val>>

(* what the two queues have in common *)
Common(t) ==
  \/ PutLock(t) \/ PutAppend(t) \/ PutCount(t)
  \/ GetLock(t) \/ GetRemove(t) \/ GetFree(t) \/ GetReturn(t)
  \/ DestroyLock(t) \/ DestroyFree(t) \/ DestroyEnd(t)
  \/ SpuriousWakeup(t)
  \/ Call(t)

FutexNext ==
  \/ \E t \in Thread :
       \/ Common(t) /\ UNCHANGED futexVars
       \/ GetUnlock(t) \/ WaitRead(t) \/ WaitSleep(t) \/ BroadcastFutex(t)
  \/ Exit /\ UNCHANGED futexVars

FutexSpec == FutexInit /\ [][FutexNext]_queueVars

-----------------------------------------------------------------------------
(* Properties *)

(* A thread that sleeps in wait while a message is on the list, with no
   broadcast on its way, was passed over by a broadcast: it was between its
   unlock and its sleep, or was one sleeper too many for MAX_WAKEUP.  These
   two are the only ways in which this queue strands a thread. *)
StrandedWasMissed ==
  order # <<>> /\ (\A t \in Thread : pc[t] # "put_wake") => sleepers \subseteq missed

(* The loss of wake-ups costs time, never messages: this queue too returns
   each put value from exactly one queue_get, in the order of the puts. *)
FutexFifoRefinement == FifoRefinement

(* What the comment of queue_put says (http-server-futex.c:126): a put to the
   empty list wakes the threads that are waiting for data.  No thread that
   found the list empty sleeps once the message is there and the broadcast
   was made. *)
WakesSleepers == NoSleeperWithWork
=============================================================================
