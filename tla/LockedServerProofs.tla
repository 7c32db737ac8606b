-------------------------- MODULE LockedServerProofs --------------------------
(***************************************************************************)
(* Proofs about LockedQueue for any set of threads, cells and values, and  *)
(* about LockedServer for any pool of workers and any descriptors.         *)
(*                                                                         *)
(* The queue: the types, the shape of the list, the account of its length  *)
(* and of the heap, that no thread sleeps on a message, and that the list  *)
(* implements FifoQueue.  All of them follow from one inductive invariant. *)
(*                                                                         *)
(* The server keeps the rules of its queue, so that what is proved of the  *)
(* queue holds in the server, and no connection is lost or left behind.    *)
(***************************************************************************)
EXTENDS LockedServer, SequenceTheorems, FiniteSetTheorems, TLAPS

-----------------------------------------------------------------------------
(* The inductive invariant *)

(* The mutex is owned by the thread that is where it is held. *)
MutexOK == \A t \in Thread : pc[t] \in Holding <=> mutex = t

(* The threads asleep on the condition variable are those in the wait. *)
SleepersOK == sleepers = {t \in Thread : pc[t] = "get_wait"}

(* A message that is not on the list has no successor until it is appended;
   messages carry values; a put that has appended is not on an empty list. *)
MessagesOK ==
  /\ \A t \in Thread :
       /\ pc[t] \in {"put_lock", "put_append"} => next[msg[t]] = NULL
       /\ Owns(t) => val[msg[t]] \in Value
       /\ pc[t] = "got" => sock[t] \in Value
       /\ pc[t] \in {"put_wake", "put_count"} => order # <<>>
  /\ \A i \in 1..Len(order) : val[order[i]] \in Value

(* Sleepers and messages coexist only between the append of the first message
   and the broadcast that follows it. *)
WakeOK ==
  sleepers # {} /\ order # <<>> =>
    Len(order) = 1 /\ \E t \in Thread : pc[t] = "put_wake"

(* The thread that destroys the queue is alone. *)
DestroyOK ==
  \A t \in Thread : pc[t] \in {"destroy_lock", "destroy_loop", "destroyed"} =>
    \A u \in Thread \ {t} : pc[u] = "idle"

IInv ==
  /\ TypeOK /\ MutexOK /\ SleepersOK
  /\ ListShape /\ LengthAccounts /\ HeapAccounts
  /\ MessagesOK /\ WakeOK /\ DestroyOK

(* The new message is a cell that was free, so it is on no list. *)
LEMMA PutAllocKeeps ==
  ASSUME IInv, NEW t \in Thread, NEW s \in Value, PutAlloc(t, s), Usable
  PROVE  IInv'
<1> USE NullAssumption DEF IInv, PutAlloc
<1>1. TypeOK'
  BY DEF TypeOK, DataTypeOK, Label, Goto
<1>2. MutexOK'
  BY DEF MutexOK, Holding, At, Goto
<1>3. SleepersOK'
  BY DEF SleepersOK, At, Goto
<1>4. ListShape'
  BY DEF ListShape, Destroying, HeapAccounts, OnList, At, Goto
<1>5. LengthAccounts'
  BY DEF LengthAccounts, Destroying, At, Goto
<1>6. HeapAccounts'
  BY DEF HeapAccounts, Owns, OnList, ListShape, TypeOK, DataTypeOK, At, Goto
<1>7. MessagesOK'
  BY DEF MessagesOK, Owns, TypeOK, DataTypeOK, Goto
<1>8. WakeOK'
  BY DEF WakeOK, At, Goto
<1>9. DestroyOK'
  BY DEF DestroyOK, Usable, Goto
<1> QED
  BY <1>1, <1>2, <1>3, <1>4, <1>5, <1>6, <1>7, <1>8, <1>9 DEF IInv

(* The put takes the mutex. *)
LEMMA PutLockKeeps ==
  ASSUME IInv, NEW t \in Thread, PutLock(t)
  PROVE  IInv'
<1> USE NullAssumption DEF IInv, PutLock
<1>1. TypeOK'
  BY DEF TypeOK, DataTypeOK, Label, Goto, listVars, Lock
<1>2. MutexOK'
  BY DEF MutexOK, Holding, TypeOK, Goto, Lock
<1>3. SleepersOK'
  BY DEF SleepersOK, At, Goto
<1>4. ListShape'
  BY DEF ListShape, Destroying, At, Goto, listVars
<1>5. LengthAccounts'
  BY DEF LengthAccounts, Destroying, At, Goto, listVars
<1>6. HeapAccounts'
  BY DEF HeapAccounts, Owns, OnList, At, Goto, listVars
<1>7. MessagesOK'
  BY DEF MessagesOK, Owns, At, Goto, listVars
<1>8. WakeOK'
  BY DEF WakeOK, At, Goto, listVars
<1>9. DestroyOK'
  BY DEF DestroyOK, At, Goto
<1> QED
  BY <1>1, <1>2, <1>3, <1>4, <1>5, <1>6, <1>7, <1>8, <1>9 DEF IInv

(* The put counts its message and gives the mutex up. *)
LEMMA PutCountKeeps ==
  ASSUME IInv, NEW t \in Thread, PutCount(t)
  PROVE  IInv'
<1> USE NullAssumption DEF IInv, PutCount
<1>1. TypeOK'
  BY DEF TypeOK, DataTypeOK, Label, Goto, Unlock
<1>2. MutexOK'
  BY DEF MutexOK, Holding, TypeOK, At, Goto, Unlock
<1>3. SleepersOK'
  BY DEF SleepersOK, At, Goto
<1>4. ListShape'
  BY DEF ListShape, Destroying, At, Goto
<1>5. LengthAccounts'
  BY DEF LengthAccounts, Destroying, MutexOK, Holding, TypeOK, At, Goto
<1>6. HeapAccounts'
  BY DEF HeapAccounts, Owns, OnList, At, Goto
<1>7. MessagesOK'
  BY DEF MessagesOK, Owns, At, Goto
<1>8. WakeOK'
  BY DEF WakeOK, At, Goto
<1>9. DestroyOK'
  BY DEF DestroyOK, Goto
<1> QED
  BY <1>1, <1>2, <1>3, <1>4, <1>5, <1>6, <1>7, <1>8, <1>9 DEF IInv

(* queue_get is called. *)
LEMMA GetCallKeeps ==
  ASSUME IInv, NEW t \in Thread, GetCall(t), Usable
  PROVE  IInv'
<1> USE NullAssumption DEF IInv, GetCall
<1>1. TypeOK'
  BY DEF TypeOK, DataTypeOK, Label, Goto, listVars
<1>2. MutexOK'
  BY DEF MutexOK, Holding, At, Goto
<1>3. SleepersOK'
  BY DEF SleepersOK, At, Goto
<1>4. ListShape'
  BY DEF ListShape, Destroying, At, Goto, listVars
<1>5. LengthAccounts'
  BY DEF LengthAccounts, Destroying, At, Goto, listVars
<1>6. HeapAccounts'
  BY DEF HeapAccounts, Owns, OnList, At, Goto, listVars
<1>7. MessagesOK'
  BY DEF MessagesOK, Owns, Goto, listVars
<1>8. WakeOK'
  BY DEF WakeOK, At, Goto, listVars
<1>9. DestroyOK'
  BY DEF DestroyOK, Usable, Goto
<1> QED
  BY <1>1, <1>2, <1>3, <1>4, <1>5, <1>6, <1>7, <1>8, <1>9 DEF IInv

(* The get takes the mutex, for the first time or after a wait. *)
LEMMA GetLockKeeps ==
  ASSUME IInv, NEW t \in Thread, GetLock(t)
  PROVE  IInv'
<1> USE NullAssumption DEF IInv, GetLock
<1>1. TypeOK'
  BY DEF TypeOK, DataTypeOK, Label, Goto, listVars, Lock
<1>2. MutexOK'
  BY DEF MutexOK, Holding, TypeOK, Goto, Lock
<1>3. SleepersOK'
  BY DEF SleepersOK, At, Goto
<1>4. ListShape'
  BY DEF ListShape, Destroying, At, Goto, listVars
<1>5. LengthAccounts'
  BY DEF LengthAccounts, Destroying, At, Goto, listVars
<1>6. HeapAccounts'
  BY DEF HeapAccounts, Owns, OnList, At, Goto, listVars
<1>7. MessagesOK'
  BY DEF MessagesOK, Owns, Goto, listVars
<1>8. WakeOK'
  BY DEF WakeOK, At, Goto, listVars
<1>9. DestroyOK'
  BY DEF DestroyOK, At, Goto
<1> QED
  BY <1>1, <1>2, <1>3, <1>4, <1>5, <1>6, <1>7, <1>8, <1>9 DEF IInv

(* The get sleeps only on an empty list, and gives the mutex up as it does. *)
LEMMA GetWaitKeeps ==
  ASSUME IInv, NEW t \in Thread, GetWait(t)
  PROVE  IInv'
<1> USE NullAssumption DEF IInv, GetWait
<1>1. TypeOK'
  BY DEF TypeOK, DataTypeOK, Label, Goto, listVars, Unlock
<1>2. MutexOK'
  BY DEF MutexOK, Holding, TypeOK, At, Goto, Unlock
<1>3. SleepersOK'
  BY DEF SleepersOK, TypeOK, Goto
<1>4. ListShape'
  BY DEF ListShape, Destroying, At, Goto, listVars
<1>5. LengthAccounts'
  BY DEF LengthAccounts, Destroying, At, Goto, listVars
<1>6. HeapAccounts'
  BY DEF HeapAccounts, Owns, OnList, At, Goto, listVars
<1>7. MessagesOK'
  BY DEF MessagesOK, Owns, Goto, listVars
<1>8. WakeOK'
  BY DEF WakeOK, ListShape, TypeOK, DataTypeOK, listVars
<1>9. DestroyOK'
  BY DEF DestroyOK, At, Goto
<1> QED
  BY <1>1, <1>2, <1>3, <1>4, <1>5, <1>6, <1>7, <1>8, <1>9 DEF IInv

(* A sleeper is woken for no reason. *)
LEMMA SpuriousWakeupKeeps ==
  ASSUME IInv, NEW t \in Thread, SpuriousWakeup(t)
  PROVE  IInv'
<1> USE NullAssumption DEF IInv, SpuriousWakeup
<1>1. TypeOK'
  BY MaxSpuriousAssumption DEF TypeOK, DataTypeOK, Label, Goto, listVars
<1>2. MutexOK'
  BY DEF MutexOK, Holding, At, Goto
<1>3. SleepersOK'
  BY DEF SleepersOK, TypeOK, Goto
<1>4. ListShape'
  BY DEF ListShape, Destroying, At, Goto, listVars
<1>5. LengthAccounts'
  BY DEF LengthAccounts, Destroying, At, Goto, listVars
<1>6. HeapAccounts'
  BY DEF HeapAccounts, Owns, OnList, At, Goto, listVars
<1>7. MessagesOK'
  BY DEF MessagesOK, Owns, Goto, listVars
<1>8. WakeOK'
  BY DEF WakeOK, At, Goto, listVars
<1>9. DestroyOK'
  BY DEF DestroyOK, At, Goto
<1> QED
  BY <1>1, <1>2, <1>3, <1>4, <1>5, <1>6, <1>7, <1>8, <1>9 DEF IInv

(* The cell freed belongs to nobody else. *)
LEMMA GetFreeKeeps ==
  ASSUME IInv, NEW t \in Thread, GetFree(t)
  PROVE  IInv'
<1> USE NullAssumption DEF IInv, GetFree
<1>1. TypeOK'
  BY DEF TypeOK, DataTypeOK, Label, Owns, HeapAccounts, At, Goto, Free, Unlock
<1>2. MutexOK'
  BY DEF MutexOK, Holding, TypeOK, At, Goto, Unlock
<1>3. SleepersOK'
  BY DEF SleepersOK, At, Goto
<1>4. ListShape'
  BY DEF ListShape, Destroying, HeapAccounts, Owns, OnList, At, Goto, Free
<1>5. LengthAccounts'
  BY DEF LengthAccounts, Destroying, At, Goto
<1>6. HeapAccounts'
  BY DEF HeapAccounts, Owns, OnList, TypeOK, At, Goto, Free
<1>7. MessagesOK'
  BY DEF MessagesOK, HeapAccounts, Owns, OnList, TypeOK, DataTypeOK, At, Goto, Free
<1>8. WakeOK'
  BY DEF WakeOK, At, Goto
<1>9. DestroyOK'
  BY DEF DestroyOK, At, Goto
<1> QED
  BY <1>1, <1>2, <1>3, <1>4, <1>5, <1>6, <1>7, <1>8, <1>9 DEF IInv

(* The caller is done with the value. *)
LEMMA GetReturnKeeps ==
  ASSUME IInv, NEW t \in Thread, GetReturn(t)
  PROVE  IInv'
<1> USE NullAssumption DEF IInv, GetReturn
<1>1. TypeOK'
  BY DEF TypeOK, DataTypeOK, Label, Goto, listVars
<1>2. MutexOK'
  BY DEF MutexOK, Holding, At, Goto
<1>3. SleepersOK'
  BY DEF SleepersOK, At, Goto
<1>4. ListShape'
  BY DEF ListShape, Destroying, At, Goto, listVars
<1>5. LengthAccounts'
  BY DEF LengthAccounts, Destroying, At, Goto, listVars
<1>6. HeapAccounts'
  BY DEF HeapAccounts, Owns, OnList, At, Goto, listVars
<1>7. MessagesOK'
  BY DEF MessagesOK, Owns, TypeOK, Goto, listVars
<1>8. WakeOK'
  BY DEF WakeOK, At, Goto, listVars
<1>9. DestroyOK'
  BY DEF DestroyOK, Goto
<1> QED
  BY <1>1, <1>2, <1>3, <1>4, <1>5, <1>6, <1>7, <1>8, <1>9 DEF IInv

(* queue_destroy is called by the last thread. *)
LEMMA DestroyCallKeeps ==
  ASSUME IInv, NEW t \in Thread, Quiescent(t), DestroyCall(t), Usable
  PROVE  IInv'
<1> USE NullAssumption DEF IInv, DestroyCall
<1>1. TypeOK'
  BY DEF TypeOK, DataTypeOK, Label, Goto, listVars
<1>2. MutexOK'
  BY DEF MutexOK, Holding, At, Goto
<1>3. SleepersOK'
  BY DEF SleepersOK, At, Goto
<1>4. ListShape'
  BY DEF ListShape, Destroying, At, Goto, listVars
<1>5. LengthAccounts'
  BY DEF LengthAccounts, Destroying, At, Goto, listVars
<1>6. HeapAccounts'
  BY DEF HeapAccounts, Owns, OnList, At, Goto, listVars
<1>7. MessagesOK'
  BY DEF MessagesOK, Owns, Goto, listVars
<1>8. WakeOK'
  BY DEF WakeOK, At, Goto, listVars
<1>9. DestroyOK'
  BY DEF DestroyOK, Quiescent, Goto
<1> QED
  BY <1>1, <1>2, <1>3, <1>4, <1>5, <1>6, <1>7, <1>8, <1>9 DEF IInv

(* queue_destroy takes the mutex. *)
LEMMA DestroyLockKeeps ==
  ASSUME IInv, NEW t \in Thread, DestroyLock(t)
  PROVE  IInv'
<1> USE NullAssumption DEF IInv, DestroyLock
<1>1. TypeOK'
  BY DEF TypeOK, DataTypeOK, Label, Goto, listVars, Lock
<1>2. MutexOK'
  BY DEF MutexOK, Holding, TypeOK, Goto, Lock
<1>3. SleepersOK'
  BY DEF SleepersOK, At, Goto
<1>4. ListShape'
  BY DEF ListShape, Destroying, Goto, listVars
<1>5. LengthAccounts'
  BY DEF LengthAccounts, Destroying, Goto, listVars
<1>6. HeapAccounts'
  BY DEF HeapAccounts, Owns, OnList, At, Goto, listVars
<1>7. MessagesOK'
  BY DEF MessagesOK, Owns, Goto, listVars
<1>8. WakeOK'
  BY DEF WakeOK, At, Goto, listVars
<1>9. DestroyOK'
  BY DEF DestroyOK, At, Goto
<1> QED
  BY <1>1, <1>2, <1>3, <1>4, <1>5, <1>6, <1>7, <1>8, <1>9 DEF IInv

(* queue_destroy resets last and length and gives the mutex up. *)
LEMMA DestroyEndKeeps ==
  ASSUME IInv, NEW t \in Thread, DestroyEnd(t)
  PROVE  IInv'
<1> USE NullAssumption DEF IInv, DestroyEnd
<1>1. TypeOK'
  BY DEF TypeOK, DataTypeOK, Label, Goto, Unlock
<1>2. MutexOK'
  BY DEF MutexOK, Holding, TypeOK, At, Goto, Unlock
<1>3. SleepersOK'
  BY DEF SleepersOK, At, Goto
<1>4. ListShape'
  BY DEF ListShape, TypeOK, DataTypeOK
<1>5. LengthAccounts'
  BY DEF LengthAccounts, ListShape, DestroyOK, TypeOK, DataTypeOK, At, Goto
<1>6. HeapAccounts'
  BY DEF HeapAccounts, Owns, OnList, At, Goto
<1>7. MessagesOK'
  BY DEF MessagesOK, Owns, Goto
<1>8. WakeOK'
  BY DEF WakeOK, At, Goto
<1>9. DestroyOK'
  BY DEF DestroyOK, At, Goto
<1> QED
  BY <1>1, <1>2, <1>3, <1>4, <1>5, <1>6, <1>7, <1>8, <1>9 DEF IInv
(* The append links the put's own message behind the last one. *)
LEMMA PutAppendKeeps ==
  ASSUME IInv, NEW t \in Thread, PutAppend(t)
  PROVE  IInv'
<1> USE NullAssumption DEF IInv, PutAppend
<1>a. /\ msg[t] \in Node /\ msg[t] \notin OnList /\ next[msg[t]] = NULL
      /\ val[msg[t]] \in Value
  BY DEF TypeOK, DataTypeOK, HeapAccounts, MessagesOK, Owns, At
<1>b. /\ Len(order') = Len(order) + 1 /\ Len(order) \in Nat
      /\ \A i \in 1..Len(order) : order'[i] = order[i] /\ order[i] # msg[t]
      /\ order'[Len(order) + 1] = msg[t]
  BY <1>a DEF TypeOK, DataTypeOK, OnList
<1>c. ~Destroying /\ ~Destroying'
  BY DEF Destroying, MutexOK, Holding, TypeOK, DataTypeOK, At, Goto
<1>1. TypeOK'
  BY <1>a DEF TypeOK, DataTypeOK, Label, At, Goto
<1>2. MutexOK'
  BY DEF MutexOK, Holding, TypeOK, At, Goto
<1>3. SleepersOK'
  BY DEF SleepersOK, TypeOK, At, Goto
<1>4. ListShape'
  <2>1. (first = IF order = <<>> THEN NULL ELSE order[1])'
    BY <1>a, <1>b, <1>c DEF ListShape, TypeOK, DataTypeOK
  <2>2. (\A i \in 1..Len(order) :
           next[order[i]] = IF i = Len(order) THEN NULL ELSE order[i + 1])'
    <3>1. CASE order = <<>>
      BY <1>a, <1>b, <1>c, <3>1 DEF ListShape
    <3>2. CASE order # <<>>
      <4>1. last = order[Len(order)] /\ last # NULL /\ Len(order) > 0
        BY <1>b, <1>c, <3>2 DEF ListShape, TypeOK, DataTypeOK
      <4>2. next' = [next EXCEPT ![last] = msg[t]] /\ last \in Node /\ last # msg[t]
        BY <1>b, <4>1 DEF TypeOK, DataTypeOK
      <4>3. ASSUME NEW i \in 1..Len(order)
            PROVE  next'[order[i]] = order'[i + 1]
        BY <1>b, <4>1, <4>2, <4>3 DEF ListShape, TypeOK, DataTypeOK
      <4> QED
        BY <1>a, <1>b, <4>2, <4>3 DEF TypeOK, DataTypeOK
    <3> QED
      BY <3>1, <3>2
  <2>3. (\A i, j \in 1..Len(order) : order[i] = order[j] => i = j)'
    BY <1>b DEF ListShape
  <2>4. (last = IF order = <<>> THEN NULL ELSE order[Len(order)])'
    BY <1>b DEF TypeOK, DataTypeOK
  <2> QED
    BY <2>1, <2>2, <2>3, <2>4 DEF ListShape
<1>5. LengthAccounts'
  BY <1>b, <1>c DEF LengthAccounts, MutexOK, Holding, TypeOK, At, Goto
<1>6. HeapAccounts'
  <2>1. OnList' = OnList \cup {msg[t]}
    BY <1>b DEF OnList
  <2> QED
    BY <1>a, <2>1 DEF HeapAccounts, Owns, TypeOK, At, Goto
<1>7. MessagesOK'
  <2>1. \A u \in Thread : pc'[u] \in {"put_lock", "put_append"} => next'[msg[u]] = NULL
    <3> SUFFICES ASSUME NEW u \in Thread, u # t, pc[u] \in {"put_lock", "put_append"}
                 PROVE  next'[msg[u]] = NULL
      BY DEF TypeOK, At, Goto
    <3>1. msg[u] \notin OnList /\ msg[u] \in Node /\ next[msg[u]] = NULL
      BY DEF HeapAccounts, MessagesOK, Owns, TypeOK, DataTypeOK
    <3>2. last # NULL => last \in OnList
      BY <1>c DEF ListShape, OnList, TypeOK, DataTypeOK
    <3> QED
      BY <3>1, <3>2 DEF TypeOK, DataTypeOK
  <2>2. \A i \in 1..Len(order') : val'[order'[i]] \in Value
    BY <1>a, <1>b DEF MessagesOK
  <2> QED
    BY <1>b, <2>1, <2>2 DEF MessagesOK, Owns, TypeOK, At, Goto
<1>8. WakeOK'
  BY <1>b DEF WakeOK, MutexOK, Holding, TypeOK, At, Goto
<1>9. DestroyOK'
  BY DEF DestroyOK, TypeOK, At, Goto
<1> QED
  BY <1>1, <1>2, <1>3, <1>4, <1>5, <1>6, <1>7, <1>8, <1>9 DEF IInv

(* The broadcast empties the set of sleepers if the list was empty before. *)
LEMMA PutWakeKeeps ==
  ASSUME IInv, NEW t \in Thread, PutWake(t)
  PROVE  IInv'
<1> USE NullAssumption DEF IInv, PutWake
<1>a. PICK woken \in SUBSET sleepers :
        /\ pc' = [u \in Thread |-> IF u = t THEN "put_count"
                                   ELSE IF u \in woken THEN "get_lock" ELSE pc[u]]
        /\ sleepers' = sleepers \ woken
        /\ length = 0 => woken = sleepers
  BY DEF Broadcast
<1>b. /\ pc[t] = "put_wake" /\ t \notin woken
      /\ \A u \in woken : u \in Thread /\ pc[u] = "get_wait"
  BY <1>a DEF SleepersOK, At
<1>c. (Destroying' <=> Destroying) /\ \A u \in Thread : Owns(u)' <=> Owns(u)
  BY <1>a, <1>b DEF Destroying, Owns
<1>1. TypeOK'
  BY <1>a DEF TypeOK, DataTypeOK, Label, listVars
<1>2. MutexOK'
  BY <1>a, <1>b DEF MutexOK, Holding
<1>3. SleepersOK'
  BY <1>a, <1>b DEF SleepersOK
<1>4. ListShape'
  BY <1>c DEF ListShape, listVars
<1>5. LengthAccounts'
  BY <1>a, <1>b, <1>c DEF LengthAccounts, listVars
<1>6. HeapAccounts'
  BY <1>c DEF HeapAccounts, OnList, listVars
<1>7. MessagesOK'
  BY <1>a, <1>b DEF MessagesOK, Owns, listVars
<1>8. WakeOK'
  <2>1. ~Destroying
    BY <1>b DEF Destroying, DestroyOK
  <2>2. length = Len(order) - 1
    BY <1>b, <2>1 DEF LengthAccounts
  <2>3. sleepers # {} /\ order # <<>> => length = 0
    BY <2>2 DEF WakeOK
  <2> QED
    BY <1>a, <2>3 DEF WakeOK, listVars
<1>9. DestroyOK'
  BY <1>a, <1>b DEF DestroyOK
<1> QED
  BY <1>1, <1>2, <1>3, <1>4, <1>5, <1>6, <1>7, <1>8, <1>9 DEF IInv

(* Taking the first cell off the list, as queue_get and queue_destroy do. *)
LEMMA TailOfList ==
  ASSUME TypeOK, ListShape, first # NULL
  PROVE  /\ first \in Node /\ first = order[1] /\ first \in OnList
         /\ order # <<>> /\ Len(order) \in Nat /\ Len(order) >= 1
         /\ Tail(order) \in Seq(Node) /\ Len(Tail(order)) = Len(order) - 1
         /\ \A i \in 1..(Len(order) - 1) : Tail(order)[i] = order[i + 1] /\ order[i + 1] # first
         /\ next[first] = IF Len(order) = 1 THEN NULL ELSE order[2]
         /\ Tail(order) = <<>> <=> Len(order) = 1
         /\ {Tail(order)[i] : i \in 1..Len(Tail(order))} = OnList \ {first}
<1> USE DEF TypeOK, DataTypeOK
<1>1. /\ first \in Node /\ first = order[1] /\ order # <<>>
      /\ Len(order) \in Nat /\ Len(order) >= 1
  BY DEF ListShape
<1>2. first \in OnList
  BY <1>1 DEF OnList
<1>3. /\ Tail(order) \in Seq(Node) /\ Len(Tail(order)) = Len(order) - 1
      /\ \A i \in 1..(Len(order) - 1) : Tail(order)[i] = order[i + 1]
  BY <1>1
<1>4. \A i \in 1..(Len(order) - 1) : order[i + 1] # first
  BY <1>1 DEF ListShape
<1>5. next[first] = IF Len(order) = 1 THEN NULL ELSE order[2]
  <2>1. 1 \in 1..Len(order)
    BY <1>1
  <2>2. next[order[1]] = IF 1 = Len(order) THEN NULL ELSE order[1 + 1]
    BY <2>1 DEF ListShape
  <2> QED
    BY <1>1, <2>2
<1>6. Tail(order) = <<>> <=> Len(order) = 1
  <2>1. Len(Tail(order)) = 0 <=> Tail(order) = <<>>
    BY <1>3, EmptySeq
  <2> QED
    BY <1>1, <1>3, <2>1
<1>7. {Tail(order)[i] : i \in 1..Len(Tail(order))} = OnList \ {first}
  <2>1. ASSUME NEW i \in 1..Len(order), order[i] # first
        PROVE  i - 1 \in 1..(Len(order) - 1) /\ Tail(order)[i - 1] = order[i]
    BY <1>1, <1>3, <2>1
  <2>2. ASSUME NEW i \in 1..(Len(order) - 1)
        PROVE  i + 1 \in 1..Len(order)
    BY <1>1
  <2> QED
    BY <1>3, <1>4, <2>1, <2>2 DEF OnList
<1> QED
  BY <1>1, <1>2, <1>3, <1>4, <1>5, <1>6, <1>7

(* What remains of the list has the shape of a list. *)
LEMMA RestOfList ==
  ASSUME TypeOK, ListShape, first # NULL,
         NEW rest, rest = Tail(order)
  PROVE  /\ next[first] = IF rest = <<>> THEN NULL ELSE rest[1]
         /\ \A i \in 1..Len(rest) :
              /\ rest[i] \in Node /\ rest[i] # first
              /\ next[rest[i]] = IF i = Len(rest) THEN NULL ELSE rest[i + 1]
         /\ \A i, j \in 1..Len(rest) : rest[i] = rest[j] => i = j
         /\ rest # <<>> => rest[Len(rest)] = order[Len(order)]
<1>1. /\ Len(order) \in Nat /\ Len(order) >= 1
      /\ rest \in Seq(Node) /\ Len(rest) = Len(order) - 1
      /\ \A i \in 1..(Len(order) - 1) : rest[i] = order[i + 1] /\ order[i + 1] # first
      /\ rest = <<>> <=> Len(order) = 1
  BY TailOfList
<1>2. next[first] = IF rest = <<>> THEN NULL ELSE rest[1]
  BY <1>1, TailOfList
<1>3. ASSUME NEW i \in 1..Len(rest)
      PROVE  /\ rest[i] \in Node /\ rest[i] # first
             /\ next[rest[i]] = IF i = Len(rest) THEN NULL ELSE rest[i + 1]
  <2>1. i + 1 \in 1..Len(order) /\ rest[i] = order[i + 1] /\ rest[i] # first
    BY <1>1
  <2>2. next[order[i + 1]] = IF i + 1 = Len(order) THEN NULL ELSE order[(i + 1) + 1]
    BY <2>1 DEF ListShape
  <2>3. rest[i] \in Node
    BY <1>1, ElementOfSeq
  <2>4. CASE i = Len(rest)
    <3>1. i + 1 = Len(order)
      BY <1>1, <2>4
    <3> QED
      BY <2>1, <2>2, <2>3, <2>4, <3>1
  <2>5. CASE i # Len(rest)
    <3>1. i + 1 \in 1..(Len(order) - 1) /\ i + 1 # Len(order)
      <4>1. Len(order) \in Nat /\ Len(rest) = Len(order) - 1
        BY <1>1
      <4>2. i \in 1..(Len(order) - 1) /\ i # Len(order) - 1
        BY <2>5, <4>1
      <4> QED
        BY <4>1, <4>2
    <3>2. rest[i + 1] = order[(i + 1) + 1]
      BY <1>1, <3>1
    <3> QED
      BY <2>1, <2>2, <2>3, <2>5, <3>1, <3>2
  <2> QED
    BY <2>4, <2>5
<1>4. ASSUME NEW i \in 1..Len(rest), NEW j \in 1..Len(rest), rest[i] = rest[j]
      PROVE  i = j
  <2>1. /\ i + 1 \in 1..Len(order) /\ rest[i] = order[i + 1]
        /\ j + 1 \in 1..Len(order) /\ rest[j] = order[j + 1]
    BY <1>1
  <2>2. i + 1 = j + 1
    BY <1>4, <2>1 DEF ListShape
  <2> QED
    BY <2>2
<1>5. rest # <<>> => rest[Len(rest)] = order[Len(order)]
  BY <1>1
<1> QED
  BY <1>2, <1>3, <1>4, <1>5

(* The get takes the first message off, and last and length follow. *)
LEMMA GetRemoveKeeps ==
  ASSUME IInv, NEW t \in Thread, GetRemove(t)
  PROVE  IInv'
<1> USE NullAssumption DEF IInv, GetRemove
<1>a. /\ first \in Node /\ first = order[1] /\ first \in OnList
      /\ order # <<>> /\ Len(order) \in Nat /\ Len(order) >= 1
      /\ order' \in Seq(Node) /\ Len(order') = Len(order) - 1
      /\ \A i \in 1..(Len(order) - 1) : order'[i] = order[i + 1] /\ order[i + 1] # first
      /\ next[first] = IF Len(order) = 1 THEN NULL ELSE order[2]
      /\ order' = <<>> <=> Len(order) = 1
      /\ OnList' = OnList \ {first}
  BY TailOfList DEF OnList
<1>b. /\ ~Destroying /\ ~Destroying' /\ pc[t] = "get_test"
      /\ \A u \in Thread : pc[u] \notin {"put_wake", "put_count"}
      /\ \A u \in Thread : pc'[u] \notin {"put_wake", "put_count"}
  BY DEF Destroying, MutexOK, Holding, TypeOK, At, Goto
<1>c. length = Len(order)
  BY <1>b DEF LengthAccounts
<1>d. length' = Len(order')
  BY <1>a, <1>c DEF Shorten, TypeOK, DataTypeOK
<1>1. TypeOK'
  <2>1. length' \in Nat
    BY <1>a, <1>d
  <2>2. first' \in Node \cup {NULL} /\ last' \in Node \cup {NULL}
    BY <1>a DEF TypeOK, DataTypeOK, Shorten
  <2> QED
    BY <1>a, <2>1, <2>2 DEF TypeOK, DataTypeOK, Label, At, Goto
<1>2. MutexOK'
  BY DEF MutexOK, Holding, TypeOK, At, Goto
<1>3. SleepersOK'
  BY DEF SleepersOK, TypeOK, At, Goto
<1>4. ListShape'
  <2>1. /\ next[first] = IF order' = <<>> THEN NULL ELSE order'[1]
        /\ \A i \in 1..Len(order') :
             next[order'[i]] = IF i = Len(order') THEN NULL ELSE order'[i + 1]
        /\ \A i, j \in 1..Len(order') : order'[i] = order'[j] => i = j
        /\ order' # <<>> => order'[Len(order')] = order[Len(order)]
    BY RestOfList
  <2>2. order' = <<>> <=> next[first] = NULL
    BY <1>a, RestOfList
  <2>3. last = order[Len(order)]
    BY <1>a, <1>b DEF ListShape
  <2>4. last' = IF order' = <<>> THEN NULL ELSE order'[Len(order')]
    BY <2>1, <2>2, <2>3 DEF Shorten
  <2> QED
    BY <2>1, <2>4 DEF ListShape
<1>5. LengthAccounts'
  BY <1>b, <1>d DEF LengthAccounts
<1>6. HeapAccounts'
  <2>1. \A u \in Thread : Owns(u)' <=> Owns(u) \/ u = t
    BY DEF Owns, TypeOK, At, Goto
  <2>2. ~Owns(t) /\ msg' = [msg EXCEPT ![t] = first] /\ heap' = heap
    BY <1>b DEF Owns
  <2> QED
    BY <1>a, <2>1, <2>2 DEF HeapAccounts, TypeOK, DataTypeOK
<1>7. MessagesOK'
  <2>1. val[first] \in Value /\ \A i \in 1..Len(order') : val'[order'[i]] \in Value
    BY <1>a DEF MessagesOK
  <2> QED
    BY <1>b, <2>1 DEF MessagesOK, Owns, TypeOK, DataTypeOK, At, Goto
<1>8. WakeOK'
  BY <1>a, <1>b DEF WakeOK
<1>9. DestroyOK'
  BY DEF DestroyOK, TypeOK, At, Goto
<1> QED
  BY <1>1, <1>2, <1>3, <1>4, <1>5, <1>6, <1>7, <1>8, <1>9 DEF IInv

(* queue_destroy frees the first message. *)
LEMMA DestroyFreeKeeps ==
  ASSUME IInv, NEW t \in Thread, DestroyFree(t)
  PROVE  IInv'
<1> USE NullAssumption DEF IInv, DestroyFree
<1>a. /\ first \in Node /\ first = order[1] /\ first \in OnList
      /\ order # <<>> /\ Len(order) \in Nat /\ Len(order) >= 1
      /\ order' \in Seq(Node) /\ Len(order') = Len(order) - 1
      /\ \A i \in 1..(Len(order) - 1) : order'[i] = order[i + 1] /\ order[i + 1] # first
      /\ next[first] = IF Len(order) = 1 THEN NULL ELSE order[2]
      /\ order' = <<>> <=> Len(order) = 1
      /\ OnList' = OnList \ {first}
  BY TailOfList DEF OnList
<1>b. /\ pc[t] = "destroy_loop" /\ Destroying' /\ pc' = pc
      /\ \A u \in Thread : ~Owns(u) /\ ~Owns(u)' /\ pc[u] # "got"
      /\ \A u \in Thread : pc[u] \notin {"get_wait", "put_wake", "put_count", "put_lock", "put_append"}
  BY DEF Destroying, DestroyOK, Owns, At
<1>c. /\ next' = [next EXCEPT ![first] = NULL]
      /\ val' = [val EXCEPT ![first] = NULL]
      /\ heap' = heap \ {first}
  BY DEF Free
<1>1. TypeOK'
  BY <1>a, <1>c DEF TypeOK, DataTypeOK
<1>2. MutexOK'
  BY DEF MutexOK
<1>3. SleepersOK'
  BY DEF SleepersOK
<1>4. ListShape'
  <2>1. /\ next[first] = IF order' = <<>> THEN NULL ELSE order'[1]
        /\ \A i \in 1..Len(order') :
             /\ order'[i] \in Node /\ order'[i] # first
             /\ next[order'[i]] = IF i = Len(order') THEN NULL ELSE order'[i + 1]
        /\ \A i, j \in 1..Len(order') : order'[i] = order'[j] => i = j
    BY RestOfList
  <2>2. \A n \in Node : n # first => next'[n] = next[n]
    BY <1>c DEF TypeOK, DataTypeOK
  <2> QED
    BY <1>b, <2>1, <2>2 DEF ListShape
<1>5. LengthAccounts'
  BY <1>b DEF LengthAccounts
<1>6. HeapAccounts'
  BY <1>a, <1>b, <1>c DEF HeapAccounts
<1>7. MessagesOK'
  <2>1. ASSUME NEW i \in 1..(Len(order) - 1) PROVE val'[order'[i]] \in Value
    <3>1. order[i + 1] \in Node /\ order[i + 1] # first /\ order'[i] = order[i + 1]
      BY <1>a DEF TypeOK, DataTypeOK
    <3>2. val'[order[i + 1]] = val[order[i + 1]]
      BY <1>c, <3>1 DEF TypeOK, DataTypeOK
    <3> QED
      BY <1>a, <3>1, <3>2 DEF MessagesOK
  <2> QED
    BY <1>a, <1>b, <2>1 DEF MessagesOK
<1>8. WakeOK'
  BY <1>b DEF WakeOK, SleepersOK
<1>9. DestroyOK'
  BY DEF DestroyOK
<1> QED
  BY <1>1, <1>2, <1>3, <1>4, <1>5, <1>6, <1>7, <1>8, <1>9 DEF IInv

-----------------------------------------------------------------------------
(* The invariant of the specification *)

(* queue_init establishes the invariant. *)
LEMMA InitInv == Init => IInv
<1> SUFFICES ASSUME Init PROVE IInv
  OBVIOUS
<1> USE NullAssumption, MaxSpuriousAssumption DEF Init
<1>1. TypeOK
  <2>1. spurious \in 0..MaxSpurious
    OBVIOUS
  <2>2. exited \in BOOLEAN
    OBVIOUS
  <2> QED
    BY <2>1, <2>2 DEF TypeOK, DataTypeOK, Label
<1>2. MutexOK /\ SleepersOK /\ WakeOK /\ DestroyOK
  BY DEF MutexOK, SleepersOK, WakeOK, DestroyOK, Holding
<1>3. ListShape /\ LengthAccounts /\ MessagesOK
  BY DEF ListShape, LengthAccounts, MessagesOK, Owns
<1>4. HeapAccounts
  BY DEF HeapAccounts, Owns, OnList
<1> QED
  BY <1>1, <1>2, <1>3, <1>4 DEF IInv

(* Steps that leave everything alone but the flag exited. *)
LEMMA StutterKeeps ==
  ASSUME IInv, UNCHANGED <<pc, msg, sock, mutex, sleepers, listVars, spurious>>,
         exited' \in BOOLEAN
  PROVE  IInv'
<1>1. TypeOK' /\ MutexOK' /\ SleepersOK' /\ WakeOK' /\ DestroyOK'
  BY DEF IInv, TypeOK, DataTypeOK, MutexOK, SleepersOK, WakeOK, DestroyOK, listVars
<1>2. ListShape' /\ LengthAccounts'
  BY DEF IInv, ListShape, LengthAccounts, Destroying, listVars
<1>3. HeapAccounts' /\ MessagesOK'
  BY DEF IInv, HeapAccounts, MessagesOK, Owns, OnList, listVars
<1> QED
  BY <1>1, <1>2, <1>3 DEF IInv

(* Every step keeps the invariant. *)
LEMMA StepInv == IInv /\ [Next]_vars => IInv'
<1> SUFFICES ASSUME IInv, [Next]_vars
             PROVE  IInv'
  OBVIOUS
<1>1. ASSUME NEW t \in Thread, Call(t) PROVE IInv'
  <2>1. ASSUME NEW s \in Value, PutAlloc(t, s) PROVE IInv'
    BY <1>1, <2>1, PutAllocKeeps DEF Call
  <2>2. CASE PutOutOfMemory(t)
    BY <2>2, StutterKeeps DEF PutOutOfMemory
  <2>3. CASE GetCall(t)
    BY <1>1, <2>3, GetCallKeeps DEF Call
  <2>4. CASE Quiescent(t) /\ DestroyCall(t)
    BY <1>1, <2>4, DestroyCallKeeps DEF Call
  <2> QED
    BY <1>1, <2>1, <2>2, <2>3, <2>4 DEF Call
<1>2. ASSUME NEW t \in Thread, Inside(t) PROVE IInv'
  BY <1>2, PutLockKeeps, PutAppendKeeps, PutWakeKeeps, PutCountKeeps, GetLockKeeps,
     GetWaitKeeps, GetRemoveKeeps, GetFreeKeeps, DestroyLockKeeps, DestroyFreeKeeps,
     DestroyEndKeeps DEF Inside
<1>3. ASSUME NEW t \in Thread, SpuriousWakeup(t) PROVE IInv'
  BY <1>3, SpuriousWakeupKeeps
<1>4. ASSUME NEW t \in Thread, GetReturn(t) PROVE IInv'
  BY <1>4, GetReturnKeeps
<1>5. CASE Exit
  BY <1>5, StutterKeeps DEF Exit
<1>6. CASE UNCHANGED vars
  <2>1. exited' \in BOOLEAN
    BY <1>6 DEF vars, IInv, TypeOK, DataTypeOK
  <2> QED
    BY <1>6, <2>1, StutterKeeps DEF vars
<1> QED
  BY <1>1, <1>2, <1>3, <1>4, <1>5, <1>6 DEF Next

(* The invariant holds throughout. *)
LEMMA Invariant == Spec => []IInv
  BY InitInv, StepInv, PTL DEF Spec

(* The type invariant of the locked queue. *)
THEOREM TypeCorrect == Spec => []TypeOK
<1>1. IInv => TypeOK
  BY DEF IInv
<1> QED
  BY <1>1, Invariant, PTL

(* The pointers always form the list of the messages in the order of their
   puts. *)
THEOREM ListShapeCorrect == Spec => []ListShape
<1>1. IInv => ListShape
  BY DEF IInv
<1> QED
  BY <1>1, Invariant, PTL

(* length counts the list, up to the put that is about to increment it. *)
THEOREM LengthCorrect == Spec => []LengthAccounts
<1>1. IInv => LengthAccounts
  BY DEF IInv
<1> QED
  BY <1>1, Invariant, PTL

(* No message is leaked, freed twice or used after its free. *)
THEOREM HeapCorrect == Spec => []HeapAccounts
<1>1. IInv => HeapAccounts
  BY DEF IInv
<1> QED
  BY <1>1, Invariant, PTL

(* No thread sleeps in queue_get on a message whose put has made its
   broadcast. *)
THEOREM NoSleeperCorrect == Spec => []NoSleeperWithWork
<1>1. IInv => NoSleeperWithWork
  BY DEF IInv, WakeOK, NoSleeperWithWork
<1> QED
  BY <1>1, Invariant, PTL

-----------------------------------------------------------------------------
(* The list implements FifoQueue *)

(* The abstract queue and the abstract values in hand. *)
AbsQueue == [i \in 1..Len(order) |-> val[order[i]]]
AbsTaken == [t \in Thread |-> Taken(t)]

(* The abstract queue is a sequence of values as long as the list. *)
LEMMA AbsQueueProperties ==
  ASSUME TypeOK, MessagesOK
  PROVE  AbsQueue \in Seq(Value) /\ Len(AbsQueue) = Len(order) /\ Len(order) \in Nat
<1>1. Len(order) \in Nat
  BY DEF TypeOK, DataTypeOK
<1>2. \A i \in 1..Len(order) : val[order[i]] \in Value
  BY DEF MessagesOK
<1> QED
  BY <1>1, <1>2 DEF AbsQueue

(* queue_init makes an empty abstract queue. *)
LEMMA InitRefines == Init => Fifo!Init
<1> SUFFICES ASSUME Init PROVE Fifo!Init
  OBVIOUS
<1>1. [i \in 1..Len(order) |-> val[order[i]]] = <<>>
  BY DEF Init
<1>2. [t \in Thread |-> Taken(t)] = [t \in Thread |-> NULL]
  BY DEF Init, Taken
<1> QED
  BY <1>1, <1>2 DEF Fifo!Init

(* A step that changes neither the list, nor the values on it, nor what a
   thread has in hand is a stutter of the abstract queue. *)
LEMMA Stutters ==
  ASSUME AbsQueue' = AbsQueue, AbsTaken' = AbsTaken
  PROVE  [Fifo!Next]_(Fifo!vars)
  BY DEF Fifo!vars, AbsQueue, AbsTaken

(* The abstract values in hand change only where Taken does. *)
LEMMA SameTaken ==
  ASSUME \A u \in Thread : Taken(u)' = Taken(u)
  PROVE  AbsTaken' = AbsTaken
  BY DEF AbsTaken

(* The steps that only move a thread between places without a value. *)
NoValue(l) == l \notin {"get_free", "got"}

(* Such a step is a stutter of the abstract queue. *)
LEMMA MoveStutters ==
  ASSUME UNCHANGED <<val, order, sock>>,
         \A u \in Thread :
           \/ pc'[u] = pc[u] /\ msg'[u] = msg[u]
           \/ NoValue(pc[u]) /\ NoValue(pc'[u])
  PROVE  [Fifo!Next]_(Fifo!vars)
<1>1. \A u \in Thread : Taken(u)' = Taken(u)
  BY DEF Taken, NoValue
<1> QED
  BY <1>1, SameTaken, Stutters DEF AbsQueue

(* A message that is not yet on the list is not yet in the abstract queue. *)
LEMMA PutAllocStutters ==
  ASSUME IInv, NEW t \in Thread, NEW s \in Value, PutAlloc(t, s)
  PROVE  [Fifo!Next]_(Fifo!vars)
<1> USE DEF IInv, TypeOK, DataTypeOK
<1>1. PICK n \in Node \ heap : val' = [val EXCEPT ![n] = s] /\ msg' = [msg EXCEPT ![t] = n]
  BY DEF PutAlloc
<1>2. \A i \in 1..Len(order) : order[i] \in Node /\ order[i] # n
  BY <1>1 DEF HeapAccounts, OnList
<1>3. AbsQueue' = AbsQueue
  BY <1>1, <1>2 DEF AbsQueue, PutAlloc
<1>4. \A u \in Thread : Taken(u)' = Taken(u)
  <2> SUFFICES ASSUME NEW u \in Thread PROVE Taken(u)' = Taken(u)
    OBVIOUS
  <2>1. CASE u = t
    BY <2>1 DEF PutAlloc, Taken, At, Goto
  <2>2. CASE u # t
    <3>1. pc[u] = "get_free" => msg[u] \in Node /\ msg[u] # n
      BY <1>1 DEF HeapAccounts, Owns
    <3> QED
      BY <1>1, <2>2, <3>1 DEF PutAlloc, Taken, At, Goto
  <2> QED
    BY <2>1, <2>2
<1> QED
  BY <1>3, <1>4, SameTaken, Stutters

(* The append takes effect as the abstract put. *)
LEMMA PutAppendPuts ==
  ASSUME IInv, NEW t \in Thread, PutAppend(t)
  PROVE  Fifo!Put(val[msg[t]]) /\ val[msg[t]] \in Value
<1> DEFINE v == val[msg[t]]
<1>1. v \in Value
  BY DEF IInv, PutAppend, MessagesOK, Owns, At
<1>2. AbsQueue \in Seq(Value) /\ Len(AbsQueue) = Len(order) /\ Len(order) \in Nat
  BY AbsQueueProperties DEF IInv
<1>3. /\ Len(order') = Len(order) + 1
      /\ \A i \in 1..Len(order) : order'[i] = order[i]
      /\ order'[Len(order) + 1] = msg[t]
      /\ val' = val
  <2>1. msg[t] \in Node /\ order \in Seq(Node) /\ order' = Append(order, msg[t])
    BY DEF IInv, PutAppend, HeapAccounts, Owns, At, TypeOK, DataTypeOK
  <2> QED
    BY <2>1 DEF PutAppend
<1>4. AbsQueue' = Append(AbsQueue, v)
  <2>1. AbsQueue' \in Seq(Value) /\ Len(AbsQueue') = Len(order) + 1
    <3>1. \A i \in 1..Len(order) + 1 : val[order'[i]] \in Value
      BY <1>1, <1>2, <1>3 DEF IInv, MessagesOK
    <3> QED
      BY <1>2, <1>3, <3>1 DEF AbsQueue
  <2>2. Append(AbsQueue, v) \in Seq(Value) /\ Len(Append(AbsQueue, v)) = Len(order) + 1
    BY <1>1, <1>2
  <2>3. ASSUME NEW i \in 1..Len(order) + 1
        PROVE  AbsQueue'[i] = Append(AbsQueue, v)[i]
    BY <1>1, <1>2, <1>3 DEF AbsQueue
  <2> QED
    BY <2>1, <2>2, <2>3, SeqEqual
<1>5. AbsTaken' = AbsTaken
  <2>1. \A u \in Thread : Taken(u)' = Taken(u)
    BY DEF IInv, TypeOK, PutAppend, Taken, At, Goto
  <2> QED
    BY <2>1, SameTaken
<1> QED
  BY <1>1, <1>4, <1>5 DEF Fifo!Put, AbsQueue, AbsTaken

(* Taking the first message off the list takes the head of the abstract queue. *)
LEMMA TailOfQueue ==
  ASSUME IInv, first # NULL, order' = Tail(order),
         \A i \in 1..Len(order') : val'[order'[i]] = val[order'[i]]
  PROVE  AbsQueue # <<>> /\ Head(AbsQueue) = val[first] /\ AbsQueue' = Tail(AbsQueue)
<1>1. AbsQueue \in Seq(Value) /\ Len(AbsQueue) = Len(order) /\ Len(order) \in Nat
  BY AbsQueueProperties DEF IInv
<1>2. /\ first = order[1] /\ Len(order) >= 1
      /\ Len(order') = Len(order) - 1
      /\ \A i \in 1..(Len(order) - 1) : order'[i] = order[i + 1]
  BY TailOfList DEF IInv
<1>3. AbsQueue # <<>> /\ Head(AbsQueue) = val[first]
  BY <1>1, <1>2 DEF AbsQueue
<1>4. Tail(AbsQueue) \in Seq(Value) /\ Len(Tail(AbsQueue)) = Len(order) - 1
  BY <1>1, <1>3
<1>5. \A i \in 1..(Len(order) - 1) : Tail(AbsQueue)[i] = val[order[i + 1]]
  BY <1>1, <1>2, <1>3 DEF AbsQueue
<1>6. \A i \in 1..(Len(order) - 1) : AbsQueue'[i] = val[order[i + 1]]
  BY <1>1, <1>2 DEF AbsQueue
<1>7. AbsQueue' \in Seq(Value) /\ Len(AbsQueue') = Len(order) - 1
  <2>1. \A i \in 1..(Len(order) - 1) : val'[order'[i]] \in Value
    <3> SUFFICES ASSUME NEW i \in 1..(Len(order) - 1) PROVE val'[order'[i]] \in Value
      OBVIOUS
    <3>1. val'[order'[i]] = val[order[i + 1]] /\ i + 1 \in 1..Len(order)
      BY <1>1, <1>2
    <3> QED
      BY <3>1 DEF IInv, MessagesOK
  <2> QED
    BY <1>1, <1>2, <2>1 DEF AbsQueue
<1> QED
  BY <1>3, <1>4, <1>5, <1>6, <1>7, SeqEqual

(* The removal takes effect as the abstract get. *)
LEMMA GetRemoveGets ==
  ASSUME IInv, NEW t \in Thread, GetRemove(t)
  PROVE  Fifo!Get(t)
<1>1. AbsQueue # <<>> /\ Head(AbsQueue) = val[first] /\ AbsQueue' = Tail(AbsQueue)
  BY TailOfQueue DEF GetRemove
<1>2. Taken(t) = NULL /\ Taken(t)' = val[first]
  BY DEF GetRemove, Taken, IInv, TypeOK, DataTypeOK, At, Goto
<1>3. \A u \in Thread \ {t} : Taken(u)' = Taken(u)
  BY DEF GetRemove, Taken, IInv, TypeOK, DataTypeOK, At, Goto
<1>4. AbsTaken' = [AbsTaken EXCEPT ![t] = val[first]] /\ AbsTaken[t] = NULL
  BY <1>2, <1>3 DEF AbsTaken
<1> QED
  BY <1>1, <1>4 DEF Fifo!Get, AbsQueue, AbsTaken

(* The value stays in hand while the message is freed. *)
LEMMA GetFreeStutters ==
  ASSUME IInv, NEW t \in Thread, GetFree(t)
  PROVE  [Fifo!Next]_(Fifo!vars)
<1> USE DEF IInv, TypeOK, DataTypeOK
<1>1. /\ pc[t] = "get_free" /\ Owns(t) /\ msg[t] \in Node /\ msg[t] \notin OnList
      /\ \A u \in Thread \ {t} : Owns(u) => msg[u] # msg[t] /\ msg[u] \in Node
  BY NullAssumption DEF GetFree, HeapAccounts, Owns, At
<1>2. \A n \in Node : n # msg[t] => val'[n] = val[n]
  BY DEF GetFree, Free
<1>3. AbsQueue' = AbsQueue
  <2>1. \A i \in 1..Len(order) : order[i] \in Node /\ order[i] # msg[t]
    BY <1>1 DEF OnList
  <2> QED
    BY <1>2, <2>1 DEF AbsQueue, GetFree
<1>4. Taken(t)' = Taken(t)
  BY <1>1 DEF GetFree, Taken, At, Goto
<1>5. \A u \in Thread \ {t} : Taken(u)' = Taken(u)
  BY <1>1, <1>2 DEF GetFree, Taken, Owns, At, Goto
<1> QED
  BY <1>3, <1>4, <1>5, SameTaken, Stutters

(* The use of the value ends as the abstract return. *)
LEMMA GetReturnReturns ==
  ASSUME IInv, NEW t \in Thread, GetReturn(t)
  PROVE  Fifo!Return(t)
<1>1. AbsQueue' = AbsQueue
  BY DEF GetReturn, AbsQueue, listVars
<1>2. Taken(t) # NULL /\ Taken(t)' = NULL
  BY NullAssumption DEF GetReturn, Taken, IInv, MessagesOK, TypeOK, At, Goto
<1>3. \A u \in Thread \ {t} : Taken(u)' = Taken(u)
  BY DEF GetReturn, Taken, Goto, listVars
<1>4. AbsTaken[t] # NULL
  BY <1>2 DEF AbsTaken
<1>5. AbsTaken' = [AbsTaken EXCEPT ![t] = NULL]
  <2>1. \A u \in Thread : AbsTaken'[u] = IF u = t THEN NULL ELSE AbsTaken[u]
    BY <1>2, <1>3 DEF AbsTaken
  <2> QED
    BY <2>1 DEF AbsTaken
<1> QED
  BY <1>1, <1>4, <1>5 DEF Fifo!Return, AbsQueue, AbsTaken

(* A message freed by queue_destroy is discarded from the abstract queue. *)
LEMMA DestroyFreeDiscards ==
  ASSUME IInv, NEW t \in Thread, DestroyFree(t)
  PROVE  Fifo!Discard
<1>1. \A i \in 1..Len(order') : val'[order'[i]] = val[order'[i]]
  <2>1. \A i \in 1..Len(order') : order'[i] \in Node /\ order'[i] # first
    BY RestOfList DEF DestroyFree, IInv
  <2> QED
    BY <2>1 DEF DestroyFree, Free, IInv, TypeOK, DataTypeOK
<1>2. AbsQueue # <<>> /\ AbsQueue' = Tail(AbsQueue)
  BY <1>1, TailOfQueue DEF DestroyFree
<1>3. AbsTaken' = AbsTaken
  <2>1. \A u \in Thread : pc[u] \notin {"get_free", "got"}
    BY DEF DestroyFree, At, IInv, DestroyOK
  <2>2. \A u \in Thread : Taken(u)' = Taken(u)
    BY <2>1 DEF DestroyFree, Taken
  <2> QED
    BY <2>2, SameTaken
<1> QED
  BY <1>2, <1>3 DEF Fifo!Discard, AbsQueue, AbsTaken

(* Every step of the list is a step, or a stutter, of the abstract queue. *)
LEMMA StepRefines == IInv /\ [Next]_vars => [Fifo!Next]_(Fifo!vars)
<1> SUFFICES ASSUME IInv, [Next]_vars
             PROVE  [Fifo!Next]_(Fifo!vars)
  OBVIOUS
<1>1. ASSUME NEW t \in Thread, Call(t) PROVE [Fifo!Next]_(Fifo!vars)
  <2>1. ASSUME NEW s \in Value, PutAlloc(t, s) PROVE [Fifo!Next]_(Fifo!vars)
    BY <2>1, PutAllocStutters
  <2>2. CASE PutOutOfMemory(t)
    BY <2>2, MoveStutters DEF PutOutOfMemory, listVars
  <2>3. CASE GetCall(t)
    BY <2>3, MoveStutters DEF GetCall, NoValue, At, Goto, listVars, IInv, TypeOK
  <2>4. CASE DestroyCall(t)
    BY <2>4, MoveStutters DEF DestroyCall, NoValue, At, Goto, listVars, IInv, TypeOK
  <2> QED
    BY <1>1, <2>1, <2>2, <2>3, <2>4 DEF Call
<1>2. ASSUME NEW t \in Thread, Inside(t) PROVE [Fifo!Next]_(Fifo!vars)
  <2>1. CASE PutLock(t)
    BY <2>1, MoveStutters DEF PutLock, NoValue, At, Goto, listVars, IInv, TypeOK
  <2>2. CASE PutAppend(t)
    <3>1. \E v \in Value : Fifo!Put(v)
      BY <2>2, PutAppendPuts DEF Fifo!Put
    <3> QED
      BY <3>1 DEF Fifo!Next
  <2>3. CASE PutWake(t)
    <3>1. \A u \in Thread : pc'[u] = pc[u] \/ (NoValue(pc[u]) /\ NoValue(pc'[u]))
      BY <2>3 DEF PutWake, Broadcast, NoValue, At, IInv, SleepersOK
    <3> QED
      BY <2>3, <3>1, MoveStutters DEF PutWake, listVars
  <2>4. CASE PutCount(t)
    BY <2>4, MoveStutters DEF PutCount, NoValue, At, Goto, IInv, TypeOK, DataTypeOK
  <2>5. CASE GetLock(t)
    BY <2>5, MoveStutters DEF GetLock, NoValue, At, Goto, listVars, IInv, TypeOK
  <2>6. CASE GetWait(t)
    BY <2>6, MoveStutters DEF GetWait, NoValue, At, Goto, listVars, IInv, TypeOK
  <2>7. CASE GetRemove(t)
    BY <2>7, GetRemoveGets DEF Fifo!Next
  <2>8. CASE GetFree(t)
    BY <2>8, GetFreeStutters
  <2>9. CASE DestroyLock(t)
    BY <2>9, MoveStutters DEF DestroyLock, NoValue, At, Goto, listVars, IInv, TypeOK
  <2>10. CASE DestroyFree(t)
    BY <2>10, DestroyFreeDiscards DEF Fifo!Next
  <2>11. CASE DestroyEnd(t)
    BY <2>11, MoveStutters DEF DestroyEnd, NoValue, At, Goto, IInv, TypeOK
  <2> QED
    BY <1>2, <2>1, <2>2, <2>3, <2>4, <2>5, <2>6, <2>7, <2>8, <2>9, <2>10, <2>11
    DEF Inside
<1>3. ASSUME NEW t \in Thread, SpuriousWakeup(t) PROVE [Fifo!Next]_(Fifo!vars)
  BY <1>3, MoveStutters DEF SpuriousWakeup, NoValue, At, Goto, listVars
<1>4. ASSUME NEW t \in Thread, GetReturn(t) PROVE [Fifo!Next]_(Fifo!vars)
  BY <1>4, GetReturnReturns DEF Fifo!Next
<1>5. CASE Exit
  BY <1>5, MoveStutters DEF Exit, listVars
<1>6. CASE UNCHANGED vars
  BY <1>6, MoveStutters DEF vars, listVars
<1> QED
  BY <1>1, <1>2, <1>3, <1>4, <1>5, <1>6 DEF Next

(* queue_put, queue_get and queue_destroy of http-server.c implement the
   abstract FIFO queue. *)
THEOREM FifoRefinementCorrect == Spec => FifoRefinement
<1>1. Spec => Fifo!Init /\ [][Fifo!Next]_(Fifo!vars)
  BY InitRefines, StepRefines, Invariant, PTL DEF Spec
<1> QED
  BY <1>1 DEF FifoRefinement, Fifo!Spec

-----------------------------------------------------------------------------
(* The server *)

(* Main only puts and destroys, workers only get; main destroys the queue at
   the end of main, when the workers have left. *)
MainPlace   == {"idle", "put_lock", "put_append", "put_wake", "put_count",
                "destroy_lock", "destroy_loop", "destroyed"}
WorkerPlace == {"idle", "get_lock", "get_test", "get_wait", "get_free", "got"}
Roles ==
  /\ pc[Main] \in MainPlace
  /\ pc[Main] \in {"destroy_lock", "destroy_loop", "destroyed"} <=> mpc = "destroy"
  /\ \A w \in Worker : pc[w] \in WorkerPlace /\ (Dead(w) => pc[w] = "idle")
  /\ mpc = "destroy" => \A w \in Worker : Dead(w)

ServerInv == IInv /\ ServerDataTypeOK /\ Roles

-----------------------------------------------------------------------------
(* Every step of the server is a step of the queue *)

(* The queue may be used as long as main has not begun to destroy it. *)
LEMMA UsableBefore ==
  ASSUME Roles, mpc # "destroy"
  PROVE  Usable
  BY ServerAssumption DEF Roles, Usable, MainPlace, WorkerPlace

(* When the joins are over, only main is left. *)
LEMMA QuiescentAfterJoin ==
  ASSUME Roles, Joined
  PROVE  Quiescent(Main)
  BY ServerAssumption DEF Roles, Joined, Quiescent

(* The steps of the server, with what each does to the queue. *)
LEMMA ServerStepIsQueueStep == ServerInv /\ [ServerNext]_allVars => [Next]_vars
<1> SUFFICES ASSUME ServerInv, [ServerNext]_allVars PROVE [Next]_vars
  OBVIOUS
<1> USE ServerAssumption DEF ServerInv
<1>1. ASSUME NEW t \in Thread, Call(t) \/ Inside(t) \/ SpuriousWakeup(t) \/ GetReturn(t)
      PROVE  [Next]_vars
  BY <1>1 DEF Next
<1>2. CASE MainStep
  <2>1. CASE PutPoison
    <3>1. PutAlloc(Main, POISON) /\ Usable
      BY <2>1, UsableBefore DEF PutPoison
    <3> QED
      BY <1>1, <3>1 DEF Call
  <2>2. CASE Join
    <3>1. DestroyCall(Main) /\ Usable /\ Quiescent(Main)
      BY <2>2, UsableBefore, QuiescentAfterJoin DEF Join
    <3> QED
      BY <1>1, <3>1 DEF Call
  <2>3. CASE EndOfPoison
    BY <2>3 DEF EndOfPoison
  <2>4. CASE ReturnFromMain
    BY <2>4 DEF ReturnFromMain, Next
  <2> QED
    BY <1>1, <1>2, <2>1, <2>2, <2>3, <2>4 DEF MainStep
<1>3. ASSUME NEW w \in Worker, WorkerStep(w) PROVE [Next]_vars
  <2>1. CASE WorkerGet(w)
    <3>1. GetCall(w) /\ Usable
      BY <2>1, UsableBefore DEF WorkerGet, Roles
    <3> QED
      BY <1>1, <3>1 DEF Call
  <2> QED
    BY <1>1, <1>3, <2>1 DEF WorkerStep, Open, Poisoned, Serve
<1>4. CASE Environment
  <2>1. ASSUME NEW c \in Conn, Accept(c) PROVE [Next]_vars
    <3>1. PutAlloc(Main, c) /\ Usable
      BY <2>1, UsableBefore DEF Accept
    <3> QED
      BY <1>1, <3>1 DEF Call
  <2>2. CASE AcceptFails
    BY <2>2 DEF AcceptFails, PutOutOfMemory, At, Next, Exit
  <2>3. CASE SigintInAccept \/ SigintElsewhere
    BY <2>3 DEF SigintInAccept, SigintElsewhere
  <2>4. ASSUME NEW w \in Worker, PeerGone(w) \/ FdopenFails(w) \/ SigintInRead(w) PROVE [Next]_vars
    BY <1>1, <2>4 DEF PeerGone, FdopenFails, SigintInRead, Next
  <2> QED
    BY <1>1, <1>4, <2>1, <2>2, <2>3, <2>4 DEF Environment
<1>5. CASE UNCHANGED allVars
  BY <1>5 DEF allVars
<1> QED
  BY <1>2, <1>3, <1>4, <1>5 DEF ServerNext

-----------------------------------------------------------------------------
(* The invariant *)

(* A step of main stays in main's places, and enters the destruction of the
   queue only at the end. *)
LEMMA MainMoves ==
  ASSUME ServerInv, NEW label \in MainPlace, Goto(Main, label), UNCHANGED worker,
         label \in {"destroy_lock", "destroy_loop", "destroyed"} <=> mpc' = "destroy",
         mpc' = "destroy" => \A w \in Worker : Dead(w)
  PROVE  Roles'
<1> USE ServerAssumption DEF ServerInv, IInv, TypeOK, Roles
<1>1. pc'[Main] = label /\ \A w \in Worker : pc'[w] = pc[w]
  BY DEF Goto
<1> QED
  BY <1>1 DEF Dead

(* A step of a worker stays in the workers' places. *)
LEMMA WorkerMoves ==
  ASSUME ServerInv, NEW w \in Worker, NEW label \in WorkerPlace, Goto(w, label), UNCHANGED mpc,
         worker' = worker \/ (worker' = [worker EXCEPT ![w] = "dead"] /\ label = "idle"),
         label # "idle" => ~Dead(w)
  PROVE  Roles'
<1> USE ServerAssumption DEF ServerInv, IInv, TypeOK, ServerDataTypeOK, Roles
<1>1. pc'[w] = label /\ \A t \in Thread \ {w} : pc'[t] = pc[t]
  BY DEF Goto
<1>2. \A u \in Worker : Dead(u)' => Dead(u) \/ (u = w /\ label = "idle")
  BY DEF Dead
<1>3. \A u \in Worker : Dead(u) => Dead(u)'
  BY DEF Dead
<1> QED
  BY <1>1, <1>2, <1>3

(* A step that moves nobody. *)
LEMMA NobodyMoves ==
  ASSUME Roles, UNCHANGED <<pc, worker>>, mpc' = mpc \/ (mpc' # "destroy" /\ mpc # "destroy")
  PROVE  Roles'
  BY DEF Roles, Dead

(* The threads inside the queue keep to their roles. *)
LEMMA InsideKeepsRoles ==
  ASSUME ServerInv, NEW t \in Thread, Inside(t), UNCHANGED serverVars
  PROVE  Roles'
<1> USE ServerAssumption DEF ServerInv, serverVars
<1>1. CASE PutLock(t) \/ PutAppend(t) \/ PutCount(t)
  <2>1. t = Main /\ mpc # "destroy"
    BY <1>1 DEF PutLock, PutAppend, PutCount, At, Roles, WorkerPlace, IInv, TypeOK, DestroyOK, MainPlace
  <2> QED
    BY <1>1, <2>1, MainMoves DEF PutLock, PutAppend, PutCount, MainPlace
<1>2. CASE GetLock(t) \/ GetWait(t) \/ GetRemove(t) \/ GetFree(t)
  <2>1. t \in Worker /\ ~Dead(t)
    BY <1>2 DEF GetLock, GetWait, GetRemove, GetFree, At, Roles, MainPlace
  <2> QED
    BY <1>2, <2>1, WorkerMoves DEF GetLock, GetWait, GetRemove, GetFree, WorkerPlace
<1>3. CASE DestroyLock(t) \/ DestroyEnd(t)
  <2>1. t = Main /\ mpc = "destroy"
    BY <1>3 DEF DestroyLock, DestroyEnd, At, Roles, WorkerPlace
  <2> QED
    BY <1>3, <2>1, MainMoves DEF DestroyLock, DestroyEnd, MainPlace, Roles
<1>4. CASE DestroyFree(t)
  BY <1>4, NobodyMoves DEF DestroyFree
<1>5. CASE PutWake(t)
  <2>1. t = Main /\ mpc # "destroy"
    BY <1>5 DEF PutWake, At, Roles, WorkerPlace, MainPlace
  <2>2. /\ pc'[Main] = "put_count"
        /\ \A w \in Worker : pc'[w] = pc[w] \/ (pc[w] = "get_wait" /\ pc'[w] = "get_lock")
    BY <1>5, <2>1 DEF PutWake, Broadcast, IInv, SleepersOK
  <2> QED
    BY <2>1, <2>2 DEF Roles, Dead, MainPlace, WorkerPlace
<1> QED
  BY <1>1, <1>2, <1>3, <1>4, <1>5 DEF Inside

(* Every step keeps the roles. *)
LEMMA StepRoles == ServerInv /\ [ServerNext]_allVars => Roles'
<1> SUFFICES ASSUME ServerInv, [ServerNext]_allVars PROVE Roles'
  OBVIOUS
<1>1. CASE MainStep
  <2>1. CASE PutPoison
    BY <2>1, MainMoves DEF PutPoison, PutAlloc, MainPlace
  <2>2. CASE Join
    BY <2>2, MainMoves DEF Join, Joined, DestroyCall, MainPlace
  <2>3. CASE EndOfPoison
    BY <2>3, NobodyMoves DEF EndOfPoison, ServerInv, vars
  <2>4. CASE ReturnFromMain
    BY <2>4, NobodyMoves DEF ReturnFromMain, Exit, ServerInv, serverVars
  <2> QED
    BY <1>1, <2>1, <2>2, <2>3, <2>4, InsideKeepsRoles, ServerAssumption DEF MainStep
<1>2. ASSUME NEW w \in Worker, WorkerStep(w) PROVE Roles'
  <2>1. CASE WorkerGet(w)
    BY <2>1, WorkerMoves DEF WorkerGet, GetCall, WorkerPlace, serverVars
  <2>2. CASE Open(w)
    BY <2>2, NobodyMoves DEF Open, ServerInv, vars
  <2>3. CASE Poisoned(w)
    BY <2>3, WorkerMoves DEF Poisoned, GetReturn, WorkerPlace
  <2>4. CASE Serve(w)
    BY <2>4, WorkerMoves DEF Serve, GetReturn, WorkerPlace
  <2> QED
    BY <1>2, <2>1, <2>2, <2>3, <2>4, InsideKeepsRoles, ServerAssumption DEF WorkerStep
<1>3. CASE Environment
  <2>1. ASSUME NEW c \in Conn, Accept(c) PROVE Roles'
    BY <2>1, MainMoves DEF Accept, PutAlloc, MainPlace
  <2>2. CASE AcceptFails
    BY <2>2, NobodyMoves DEF AcceptFails, PutOutOfMemory, ServerInv, serverVars
  <2>3. CASE SigintInAccept \/ SigintElsewhere
    BY <2>3, NobodyMoves DEF SigintInAccept, SigintElsewhere, ServerInv, vars
  <2>4. ASSUME NEW w \in Worker, PeerGone(w) PROVE Roles'
    BY <2>4, NobodyMoves DEF PeerGone, Exit, ServerInv, serverVars
  <2>5. ASSUME NEW w \in Worker, FdopenFails(w) \/ SigintInRead(w) PROVE Roles'
    BY <2>5, WorkerMoves DEF FdopenFails, SigintInRead, GetReturn, WorkerPlace
  <2>6. ASSUME NEW t \in Thread, SpuriousWakeup(t), UNCHANGED serverVars PROVE Roles'
    <3>1. t \in Worker /\ ~Dead(t)
      BY <2>6, ServerAssumption DEF SpuriousWakeup, At, ServerInv, Roles, MainPlace
    <3> QED
      BY <2>6, <3>1, WorkerMoves DEF SpuriousWakeup, WorkerPlace, serverVars
  <2> QED
    BY <1>3, <2>1, <2>2, <2>3, <2>4, <2>5, <2>6 DEF Environment
<1>4. CASE UNCHANGED allVars
  BY <1>4, NobodyMoves DEF allVars, vars, serverVars, ServerInv
<1> QED
  BY <1>1, <1>2, <1>3, <1>4 DEF ServerNext

(* The pool has a size. *)
LEMMA PoolSize == Cardinality(Worker) \in Nat
  BY ServerAssumption, FS_CardinalityType

(* Every step keeps the types of the server's own variables. *)
LEMMA StepServerTypes == ServerInv /\ [ServerNext]_allVars => ServerDataTypeOK'
<1> SUFFICES ASSUME ServerDataTypeOK, [ServerNext]_allVars PROVE ServerDataTypeOK'
  BY DEF ServerInv
<1> USE ServerAssumption, PoolSize DEF ServerDataTypeOK, SetFd
<1>1. ASSUME UNCHANGED serverVars PROVE ServerDataTypeOK'
  BY <1>1 DEF serverVars
<1>2. ASSUME CleanupHandler PROVE signals' \in 0..MaxSignals /\ flag_term' \in BOOLEAN
  BY <1>2 DEF CleanupHandler
<1>3. CASE MainStep
  <2>1. CASE PutPoison
    <3>1. poisoned' \in 0..Cardinality(Worker)
      BY <2>1 DEF PutPoison, Poisons
    <3> QED
      BY <2>1, <3>1 DEF PutPoison
  <2>2. CASE Join \/ EndOfPoison \/ ReturnFromMain
    BY <1>1, <2>2 DEF Join, EndOfPoison, ReturnFromMain
  <2> QED
    BY <1>1, <1>3, <2>1, <2>2 DEF MainStep
<1>4. ASSUME NEW w \in Worker, WorkerStep(w) PROVE ServerDataTypeOK'
  BY <1>1, <1>4 DEF WorkerStep, WorkerGet, Open, Poisoned, Serve
<1>5. CASE Environment
  <2>1. ASSUME NEW c \in Conn, Accept(c) PROVE ServerDataTypeOK'
    BY <2>1 DEF Accept
  <2>2. CASE SigintInAccept \/ SigintElsewhere
    BY <1>2, <2>2 DEF SigintInAccept, SigintElsewhere
  <2>3. ASSUME NEW w \in Worker, FdopenFails(w) PROVE ServerDataTypeOK'
    <3>1. failures' \in 0..MaxFdopenFailure
      BY <2>3 DEF FdopenFails
    <3> QED
      BY <2>3, <3>1 DEF FdopenFails
  <2>4. ASSUME NEW w \in Worker, SigintInRead(w) PROVE ServerDataTypeOK'
    BY <1>2, <2>4 DEF SigintInRead
  <2> QED
    BY <1>1, <1>5, <2>1, <2>2, <2>3, <2>4 DEF Environment, AcceptFails, PeerGone
<1>6. CASE UNCHANGED allVars
  BY <1>1, <1>6 DEF allVars
<1> QED
  BY <1>3, <1>4, <1>5, <1>6 DEF ServerNext

(* The invariant holds throughout. *)
LEMMA ServerInvariant == ServerSpec => []ServerInv
<1>1. ServerInit => ServerInv
  <2> SUFFICES ASSUME ServerInit PROVE ServerInv
    OBVIOUS
  <2>1. IInv
    BY InitInv DEF ServerInit
  <2>2. ServerDataTypeOK
    <3>1. 0 \in 0..Cardinality(Worker) /\ 0 \in 0..MaxSignals /\ 0 \in 0..MaxFdopenFailure
      BY ServerAssumption, PoolSize
    <3> QED
      BY <3>1 DEF ServerInit, ServerDataTypeOK
  <2>3. Roles
    BY ServerAssumption DEF ServerInit, Init, Roles, MainPlace, WorkerPlace
  <2> QED
    BY <2>1, <2>2, <2>3 DEF ServerInv
<1>2. ServerInv /\ [ServerNext]_allVars => ServerInv'
  BY ServerStepIsQueueStep, StepInv, StepRoles, StepServerTypes DEF ServerInv
<1> QED
  BY <1>1, <1>2, PTL DEF ServerSpec

(* The types of the server. *)
THEOREM ServerTypeCorrect == ServerSpec => []ServerTypeOK
<1>1. ServerInv => ServerTypeOK
  BY DEF ServerInv, IInv, ServerTypeOK
<1> QED
  BY <1>1, ServerInvariant, PTL

(* The server keeps the rules of its queue: no call after the destruction has
   begun, and no destruction before every worker has left. *)
THEOREM KeepsQueueRulesCorrect == ServerSpec => KeepsQueueRules
<1>1. ServerInit => Init
  BY DEF ServerInit
<1> QED
  BY <1>1, ServerStepIsQueueStep, ServerInvariant, PTL DEF ServerSpec, KeepsQueueRules, Spec

-----------------------------------------------------------------------------
(* The connections                                                          *)
(*                                                                          *)
(* A descriptor is in one place as long as not every worker is lost, and a  *)
(* shutdown without failures drains the queue.  Both rest on the same       *)
(* account: where each value is, cell or hand, and how many poisons are     *)
(* left.                                                                    *)

(* The places of a value: allocated messages, and threads that use it. *)
Cells(v) == {n \in heap : val[n] = v}
Hands(v) == {t \in Thread : pc[t] = "got" /\ sock[t] = v}
DeadSet  == {w \in Worker : Dead(w)}

(* A connection has one place if it is open, none if it is not. *)
Placed ==
  \A c \in Conn :
    /\ \A n, m \in Cells(c) : n = m
    /\ \A t, u \in Hands(c) : t = u
    /\ Cells(c) = {} \/ Hands(c) = {}
    /\ Cells(c) # {} => fd[c] = "accepted"
    /\ Hands(c) # {} => fd[c] \in {"accepted", "open"}
    /\ fd[c] \in {"accepted", "open"} /\ (mpc # "destroy" \/ failures < Cardinality(Worker))
         => Cells(c) # {} \/ Hands(c) # {}

(* Poison is behind the connections: as long as one may be on the list, no
   worker has taken poison, and only failures have killed workers. *)
Pending == mpc = "accept" \/ \E i \in 1..Len(order) : val[order[i]] \in Conn
PoisonLast ==
  /\ mpc = "accept" => Cells(POISON) = {}
  /\ mpc # "accept" /\ pc[Main] \in {"put_lock", "put_append"} => val[msg[Main]] = POISON
  /\ \A i, j \in 1..Len(order) : i < j /\ val[order[i]] = POISON => val[order[j]] = POISON
  /\ Pending => (\A t \in Thread : Taken(t) # POISON) /\ Cardinality(DeadSet) = failures

(* Every poison is in a cell, in a hand, or has killed a worker. *)
PoisonCount ==
  /\ IsFiniteSet(heap)
  /\ mpc \in {"join", "destroy"} => poisoned = Cardinality(Worker)
  /\ failures = 0 => \A c \in Conn : fd[c] # "leaked"
  /\ mpc # "destroy" \/ failures = 0 =>
       Cardinality(Cells(POISON)) + Cardinality(Hands(POISON)) + Cardinality(DeadSet)
         = poisoned + failures

ConnInv == ServerInv /\ Placed /\ PoisonLast /\ PoisonCount

-----------------------------------------------------------------------------
(* What the steps of the queue do to the places of the values *)

(* A step that frees, allocates and hands over nothing. *)
Quiet ==
  /\ UNCHANGED <<heap, val, sock>>
  /\ \A t \in Thread : pc'[t] = "got" <=> pc[t] = "got"

(* A quiet step moves no value. *)
LEMMA QuietPlaces ==
  ASSUME Quiet, NEW v
  PROVE  Cells(v)' = Cells(v) /\ Hands(v)' = Hands(v)
  BY DEF Quiet, Cells, Hands

(* queue_put allocates a cell for its value. *)
LEMMA AllocPlaces ==
  ASSUME ServerInv, NEW t \in Thread, NEW s \in Value, PutAlloc(t, s)
  PROVE  \E n \in Node \ heap :
           /\ heap' = heap \cup {n} /\ msg'[t] = n /\ val'[n] = s
           /\ \A m \in heap : val'[m] = val[m]
           /\ Cells(s)' = Cells(s) \cup {n} /\ n \notin Cells(s)
           /\ \A v \in Value \ {s} : Cells(v)' = Cells(v)
           /\ \A v : Hands(v)' = Hands(v)
<1>1. PICK n \in Node \ heap :
        /\ heap' = heap \cup {n}
        /\ val' = [val EXCEPT ![n] = s]
        /\ msg' = [msg EXCEPT ![t] = n]
  BY DEF PutAlloc
<1>2. msg'[t] = n /\ val'[n] = s /\ \A m \in heap : val'[m] = val[m]
  BY <1>1 DEF ServerInv, IInv, TypeOK, DataTypeOK
<1>3. Cells(s)' = Cells(s) \cup {n} /\ n \notin Cells(s)
  BY <1>1, <1>2 DEF Cells
<1>4. \A v \in Value \ {s} : Cells(v)' = Cells(v)
  BY <1>1, <1>2 DEF Cells
<1>5. \A v : Hands(v)' = Hands(v)
  BY DEF Hands, PutAlloc, At, Goto, ServerInv, IInv, TypeOK
<1> QED
  BY <1>1, <1>2, <1>3, <1>4, <1>5

(* queue_get frees the cell and returns its value. *)
LEMMA FreePlaces ==
  ASSUME ServerInv, NEW t \in Thread, GetFree(t)
  PROVE  /\ msg[t] \in heap /\ msg[t] \notin OnList
         /\ \A v \in Value : /\ Cells(v)' = Cells(v) \ {msg[t]}
                             /\ t \notin Hands(v)
                             /\ Hands(v)' = IF val[msg[t]] = v THEN Hands(v) \cup {t} ELSE Hands(v)
<1>1. /\ pc[t] = "get_free" /\ pc' = [pc EXCEPT ![t] = "got"]
      /\ sock' = [sock EXCEPT ![t] = val[msg[t]]]
      /\ heap' = heap \ {msg[t]} /\ val' = [val EXCEPT ![msg[t]] = NULL]
  BY DEF GetFree, At, Goto, Free
<1>2. msg[t] \in heap /\ msg[t] \notin OnList
  BY <1>1 DEF ServerInv, IInv, HeapAccounts, Owns
<1>3. ASSUME NEW v \in Value PROVE Cells(v)' = Cells(v) \ {msg[t]}
  BY <1>1, <1>2 DEF Cells, ServerInv, IInv, TypeOK, DataTypeOK
<1>4. ASSUME NEW v \in Value
      PROVE  t \notin Hands(v) /\ Hands(v)' = IF val[msg[t]] = v THEN Hands(v) \cup {t} ELSE Hands(v)
  BY <1>1 DEF Hands, ServerInv, IInv, TypeOK, DataTypeOK
<1> QED
  BY <1>2, <1>3, <1>4

(* The worker is done with the value. *)
LEMMA ReturnPlaces ==
  ASSUME ServerInv, NEW t \in Thread, GetReturn(t), NEW v
  PROVE  /\ Cells(v)' = Cells(v)
         /\ Hands(v)' = Hands(v) \ {t}
         /\ t \in Hands(v) <=> sock[t] = v
  BY DEF GetReturn, At, Goto, listVars, Cells, Hands, ServerInv, IInv, TypeOK, DataTypeOK

(* queue_destroy frees the first cell of the list. *)
LEMMA DestroyPlaces ==
  ASSUME ServerInv, NEW t \in Thread, DestroyFree(t), NEW v \in Value
  PROVE  /\ Cells(v)' = Cells(v) \ {first} /\ Hands(v)' = Hands(v)
         /\ first \in Node /\ first = order[1] /\ Len(order) \in Nat /\ Len(order) >= 1
<1>1. /\ heap' = heap \ {first} /\ val' = [val EXCEPT ![first] = NULL]
      /\ UNCHANGED <<pc, sock>> /\ first # NULL
  BY DEF DestroyFree, Free
<1>2. first \in Node /\ first = order[1] /\ Len(order) \in Nat /\ Len(order) >= 1
  BY <1>1, TailOfList DEF ServerInv, IInv
<1> QED
  BY <1>1, <1>2, NullAssumption DEF Cells, Hands, ServerInv, IInv, TypeOK, DataTypeOK

(* The other steps inside the queue are quiet. *)
LEMMA InsidePlaces ==
  ASSUME ServerInv, NEW t \in Thread, Inside(t)
  PROVE  Quiet \/ GetFree(t) \/ DestroyFree(t)
<1> USE DEF ServerInv, IInv, TypeOK, Quiet, listVars, At, Goto
<1>1. CASE PutLock(t) \/ PutAppend(t) \/ PutCount(t)
  BY <1>1 DEF PutLock, PutAppend, PutCount
<1>2. CASE PutWake(t)
  BY <1>2 DEF PutWake, Broadcast, SleepersOK
<1>3. CASE GetLock(t) \/ GetWait(t) \/ GetRemove(t)
  BY <1>3 DEF GetLock, GetWait, GetRemove
<1>4. CASE DestroyLock(t) \/ DestroyEnd(t)
  BY <1>4 DEF DestroyLock, DestroyEnd
<1> QED
  BY <1>1, <1>2, <1>3, <1>4 DEF Inside

-----------------------------------------------------------------------------
(* The end: nothing but poison, and without failures nothing at all *)

(* In main's last part every worker is gone. *)
LEMMA AllGone ==
  ASSUME Roles, mpc = "destroy"
  PROVE  DeadSet = Worker /\ pc[Main] \notin {"idle", "got"} /\ \A v : Hands(v) = {}
  BY ServerAssumption DEF Roles, DeadSet, Hands, MainPlace

(* A value is on the list only as the value of a cell. *)
LEMMA ListedCells ==
  ASSUME ServerInv
  PROVE  /\ Len(order) \in Nat
         /\ \A i \in 1..Len(order) : order[i] \in heap /\ order[i] \in Node /\ val[order[i]] \in Value
  BY DEF ServerInv, IInv, TypeOK, DataTypeOK, HeapAccounts, OnList, MessagesOK

(* If a worker is left that no failure has killed, it took poison, and poison
   is behind the connections. *)
LEMMA OnlyPoisonLeft ==
  ASSUME ConnInv, mpc = "destroy", failures < Cardinality(Worker)
  PROVE  \A i \in 1..Len(order) : val[order[i]] = POISON
<1>1. DeadSet = Worker
  BY AllGone DEF ConnInv, ServerInv
<1>2. ~Pending
  BY <1>1, PoolSize DEF ConnInv, PoisonLast, ServerInv, ServerDataTypeOK
<1> QED
  BY <1>2, ListedCells, ServerAssumption DEF Pending, ConnInv

(* Without failures every worker took one poison, and that was all of it. *)
LEMMA EmptyAtEnd ==
  ASSUME ConnInv, mpc = "destroy", failures = 0
  PROVE  order = <<>> /\ \A v \in Value : Cells(v) = {} /\ Hands(v) = {}
<1>1. DeadSet = Worker /\ \A v : Hands(v) = {}
  BY AllGone DEF ConnInv, ServerInv
<1>2. Cardinality(Worker) \in Nat /\ Cardinality(Worker) # 0
  BY PoolSize, ServerAssumption, FS_EmptySet
<1>3. \A i \in 1..Len(order) : val[order[i]] = POISON
  BY <1>2, OnlyPoisonLeft
<1>4. Cells(POISON) \subseteq heap /\ IsFiniteSet(heap)
  BY DEF Cells, ConnInv, PoisonCount
<1>5. IsFiniteSet(Cells(POISON)) /\ Cardinality(Cells(POISON)) \in Nat
  BY <1>4, FS_Subset, FS_CardinalityType
<1>6. Cardinality(Cells(POISON)) = 0
  BY <1>1, <1>2, <1>5, FS_EmptySet DEF ConnInv, PoisonCount
<1>7. Cells(POISON) = {}
  BY <1>5, <1>6, FS_EmptySet
<1>8. Len(order) = 0
  BY <1>3, <1>7, ListedCells DEF Cells, ConnInv
<1>9. order = <<>>
  BY <1>8 DEF ConnInv, ServerInv, IInv, TypeOK, DataTypeOK
<1>10. heap = {}
  BY <1>9, ServerAssumption, AllGone
     DEF HeapAccounts, OnList, Owns, ConnInv, ServerInv, IInv, Roles
<1> QED
  BY <1>1, <1>9, <1>10 DEF Cells

-----------------------------------------------------------------------------
(* A descriptor is in one place *)

(* A step that moves no value and no descriptor. *)
LEMMA QuietPlaced ==
  ASSUME Placed, Quiet, UNCHANGED <<fd, failures>>, mpc' # "destroy" => mpc # "destroy"
  PROVE  Placed'
  BY QuietPlaces DEF Placed

(* accept returns a descriptor that was nowhere. *)
LEMMA AcceptPlaced ==
  ASSUME ConnInv, NEW c \in Conn, Accept(c)
  PROVE  Placed'
<1> USE ServerAssumption DEF ConnInv, Placed
<1>1. /\ fd[c] = "free" /\ fd' = [fd EXCEPT ![c] = "accepted"]
      /\ PutAlloc(Main, c) /\ UNCHANGED <<mpc, failures>>
  BY DEF Accept, SetFd
<1>2. PICK n \in Node \ heap :
        /\ Cells(c)' = Cells(c) \cup {n}
        /\ \A v \in Value \ {c} : Cells(v)' = Cells(v)
        /\ \A v : Hands(v)' = Hands(v)
  BY <1>1, AllocPlaces
<1>3. Cells(c)' = {n} /\ Hands(c)' = {} /\ fd'[c] = "accepted"
  BY <1>1, <1>2 DEF ServerInv, ServerDataTypeOK
<1>4. \A d \in Conn \ {c} : Cells(d)' = Cells(d) /\ Hands(d)' = Hands(d) /\ fd'[d] = fd[d]
  BY <1>1, <1>2 DEF ServerInv, ServerDataTypeOK
<1> QED
  BY <1>1, <1>3, <1>4

(* Main puts poison, which is no descriptor. *)
LEMMA PutPoisonPlaced ==
  ASSUME ConnInv, PutPoison
  PROVE  Placed'
<1> USE ServerAssumption DEF ConnInv, Placed
<1>1. PutAlloc(Main, POISON) /\ UNCHANGED <<mpc, failures, fd>>
  BY DEF PutPoison
<1>2. \A c \in Conn : Cells(c)' = Cells(c) /\ Hands(c)' = Hands(c)
  BY <1>1, AllocPlaces
<1> QED
  BY <1>1, <1>2

(* The value goes from the cell to the hand. *)
LEMMA GetFreePlaced ==
  ASSUME ConnInv, NEW t \in Thread, GetFree(t), UNCHANGED serverVars
  PROVE  Placed'
<1> USE ServerAssumption DEF ConnInv, Placed, serverVars
<1>1. \A c \in Conn : /\ Cells(c)' = Cells(c) \ {msg[t]}
                      /\ Hands(c)' = IF val[msg[t]] = c THEN Hands(c) \cup {t} ELSE Hands(c)
  BY FreePlaces
<1>2. \A c \in Conn : msg[t] \in Cells(c) <=> val[msg[t]] = c
  BY FreePlaces DEF Cells
<1> SUFFICES ASSUME NEW c \in Conn
             PROVE  /\ \A n, m \in Cells(c)' : n = m
                    /\ \A u, w \in Hands(c)' : u = w
                    /\ Cells(c)' = {} \/ Hands(c)' = {}
                    /\ Cells(c)' # {} => fd[c] = "accepted"
                    /\ Hands(c)' # {} => fd[c] \in {"accepted", "open"}
                    /\ fd[c] \in {"accepted", "open"} /\ (mpc # "destroy" \/ failures < Cardinality(Worker))
                         => Cells(c)' # {} \/ Hands(c)' # {}
  OBVIOUS
<1>3. CASE val[msg[t]] = c
  <2>1. Cells(c) = {msg[t]} /\ Hands(c) = {}
    BY <1>2, <1>3
  <2>2. Cells(c)' = {} /\ Hands(c)' = {t}
    BY <1>1, <1>3, <2>1
  <2> QED
    BY <2>1, <2>2
<1>4. CASE val[msg[t]] # c
  <2>1. Cells(c)' = Cells(c) /\ Hands(c)' = Hands(c)
    BY <1>1, <1>2, <1>4
  <2> QED
    BY <2>1
<1> QED
  BY <1>3, <1>4

(* The connection is opened, closed or leaked by the one worker that has it. *)
LEMMA OpenPlaced ==
  ASSUME ConnInv, NEW w \in Worker, Open(w)
  PROVE  Placed'
<1> USE ServerAssumption DEF ConnInv, Placed
<1>1. /\ UNCHANGED <<vars, mpc, failures>> /\ pc[w] = "got" /\ sock[w] # POISON
      /\ fd' = [fd EXCEPT ![sock[w]] = "open"]
  BY DEF Open, SetFd, At
<1>2. sock[w] \in Conn /\ w \in Hands(sock[w])
  BY <1>1 DEF Hands, ServerInv, IInv, MessagesOK
<1>3. \A c \in Conn : Cells(c)' = Cells(c) /\ Hands(c)' = Hands(c)
  BY <1>1 DEF Cells, Hands, vars, listVars
<1>4. fd'[sock[w]] = "open" /\ \A c \in Conn \ {sock[w]} : fd'[c] = fd[c]
  BY <1>1, <1>2 DEF ServerInv, ServerDataTypeOK
<1> QED
  BY <1>1, <1>2, <1>3, <1>4

(* The descriptor is given back, or leaked, as its worker gives up the value. *)
LEMMA EndPlaced ==
  ASSUME ConnInv, NEW w \in Worker, GetReturn(w), sock[w] # POISON,
         NEW state \in {"free", "leaked"}, SetFd(sock[w], state),
         mpc' = mpc, failures' \in {failures, failures + 1}
  PROVE  Placed'
<1> USE ServerAssumption DEF ConnInv, Placed
<1>1. PICK c \in Conn : c = sock[w]
  BY DEF GetReturn, At, ServerInv, IInv, MessagesOK
<1>2. \A d \in Conn : Cells(d)' = Cells(d) /\ Hands(d)' = Hands(d) \ {w}
  BY ReturnPlaces
<1>3. \A d \in Conn : w \in Hands(d) <=> d = c
  BY <1>1, ReturnPlaces
<1>4. Cells(c)' = {} /\ Hands(c)' = {}
  BY <1>2, <1>3
<1>5. ASSUME NEW d \in Conn \ {c} PROVE Cells(d)' = Cells(d) /\ Hands(d)' = Hands(d)
  <2>1. Cells(d)' = Cells(d) /\ Hands(d)' = Hands(d) \ {w}
    BY <1>2
  <2>2. w \notin Hands(d)
    BY <1>3
  <2> QED
    BY <2>1, <2>2
<1>6. fd'[c] = state /\ \A d \in Conn \ {c} : fd'[d] = fd[d]
  BY <1>1 DEF SetFd, ServerInv, ServerDataTypeOK
<1>7. failures' < Cardinality(Worker) => failures < Cardinality(Worker)
  BY PoolSize DEF ServerInv, ServerDataTypeOK
<1> QED
  BY <1>4, <1>5, <1>6, <1>7

(* A worker takes poison, which is no descriptor. *)
LEMMA PoisonedPlaced ==
  ASSUME ConnInv, NEW w \in Worker, Poisoned(w)
  PROVE  Placed'
<1> USE ServerAssumption DEF ConnInv, Placed
<1>1. sock[w] = POISON /\ GetReturn(w) /\ UNCHANGED <<mpc, failures, fd>>
  BY DEF Poisoned
<1>2. \A c \in Conn : Cells(c)' = Cells(c) /\ Hands(c)' = Hands(c)
  BY <1>1, ReturnPlaces
<1> QED
  BY <1>1, <1>2

(* queue_destroy frees connections only if no worker was left. *)
LEMMA DestroyPlaced ==
  ASSUME ConnInv, NEW t \in Thread, DestroyFree(t), UNCHANGED serverVars
  PROVE  Placed'
<1> USE ServerAssumption DEF ConnInv, Placed, serverVars
<1>1. \A c \in Conn : Cells(c)' = Cells(c) \ {first} /\ Hands(c)' = Hands(c)
  BY DestroyPlaces
<1>2. first = order[1] /\ Len(order) \in Nat /\ Len(order) >= 1
  BY DestroyPlaces
<1>3. mpc = "destroy"
  BY DEF DestroyFree, At, ServerInv, Roles, WorkerPlace
<1>4. failures < Cardinality(Worker) => \A c \in Conn : Cells(c)' = Cells(c)
  BY <1>1, <1>2, <1>3, OnlyPoisonLeft DEF Cells
<1> QED
  BY <1>1, <1>3, <1>4

(* What a thread does inside the queue. *)
LEMMA InsidePlaced ==
  ASSUME ConnInv, NEW t \in Thread, Inside(t), UNCHANGED serverVars
  PROVE  Placed'
<1>1. CASE Quiet
  BY <1>1, QuietPlaced DEF ConnInv, serverVars
<1> QED
  BY <1>1, InsidePlaces, GetFreePlaced, DestroyPlaced DEF ConnInv

(* Every step keeps the connections in their places. *)
LEMMA StepPlaced == ConnInv /\ [ServerNext]_allVars => Placed'
<1> SUFFICES ASSUME ConnInv, [ServerNext]_allVars PROVE Placed'
  OBVIOUS
<1> USE ServerAssumption
<1>q. ASSUME UNCHANGED vars, UNCHANGED <<fd, failures>>, mpc' # "destroy" => mpc # "destroy"
      PROVE  Placed'
  BY <1>q, QuietPlaced DEF Quiet, vars, listVars, ConnInv
<1>r. ASSUME UNCHANGED <<heap, val, sock, pc>>, UNCHANGED <<fd, failures>>, mpc' = mpc
      PROVE  Placed'
  BY <1>r, QuietPlaced DEF Quiet, ConnInv
<1>1. CASE MainStep
  <2>1. CASE EndOfPoison
    BY <1>q, <2>1 DEF EndOfPoison
  <2>2. CASE Join
    <3>1. Quiet
      BY <2>2 DEF Join, DestroyCall, At, Goto, Quiet, listVars, ConnInv, ServerInv, IInv, TypeOK
    <3> QED
      BY <2>2, <3>1, QuietPlaced DEF Join, ConnInv
  <2>3. CASE ReturnFromMain
    BY <1>r, <2>3 DEF ReturnFromMain, Exit, serverVars, listVars
  <2> QED
    BY <1>1, <2>1, <2>2, <2>3, PutPoisonPlaced, InsidePlaced DEF MainStep
<1>2. ASSUME NEW w \in Worker, WorkerStep(w) PROVE Placed'
  <2>1. CASE WorkerGet(w)
    <3>1. Quiet
      BY <2>1 DEF WorkerGet, GetCall, At, Goto, Quiet, listVars, ConnInv, ServerInv, IInv, TypeOK
    <3> QED
      BY <2>1, <3>1, QuietPlaced DEF WorkerGet, serverVars, ConnInv
  <2>2. CASE Serve(w)
    BY <2>2, EndPlaced DEF Serve
  <2> QED
    BY <1>2, <2>1, <2>2, OpenPlaced, PoisonedPlaced, InsidePlaced DEF WorkerStep
<1>3. CASE Environment
  <2>1. CASE AcceptFails
    BY <1>r, <2>1 DEF AcceptFails, PutOutOfMemory, serverVars, listVars
  <2>2. CASE SigintInAccept \/ SigintElsewhere
    BY <1>q, <2>2 DEF SigintInAccept, SigintElsewhere
  <2>3. ASSUME NEW w \in Worker, PeerGone(w) PROVE Placed'
    BY <1>r, <2>3 DEF PeerGone, Exit, serverVars, listVars
  <2>4. ASSUME NEW w \in Worker, FdopenFails(w) PROVE Placed'
    BY <2>4, EndPlaced DEF FdopenFails
  <2>5. ASSUME NEW w \in Worker, SigintInRead(w) PROVE Placed'
    BY <2>5, EndPlaced DEF SigintInRead
  <2>6. ASSUME NEW t \in Thread, SpuriousWakeup(t), UNCHANGED serverVars PROVE Placed'
    <3>1. Quiet
      BY <2>6 DEF SpuriousWakeup, At, Goto, Quiet, listVars, ConnInv, ServerInv, IInv, TypeOK
    <3> QED
      BY <2>6, <3>1, QuietPlaced DEF serverVars, ConnInv
  <2> QED
    BY <1>3, <2>1, <2>2, <2>3, <2>4, <2>5, <2>6, AcceptPlaced DEF Environment
<1>4. CASE UNCHANGED allVars
  BY <1>4, <1>q DEF allVars, serverVars
<1> QED
  BY <1>1, <1>2, <1>3, <1>4 DEF ServerNext

-----------------------------------------------------------------------------
(* Poison is behind the connections *)

(* A step that leaves the list and the dead alone, and begins no put. *)
Still ==
  /\ UNCHANGED <<order, heap, val, failures>> /\ DeadSet' = DeadSet
  /\ mpc' = "accept" => mpc = "accept"
  /\ pc'[Main] \in {"put_lock", "put_append"} =>
       /\ pc[Main] \in {"put_lock", "put_append"} /\ msg'[Main] = msg[Main]
       /\ mpc = "accept" => mpc' = "accept"
  /\ \A t \in Thread : Taken(t)' \in {Taken(t), NULL}

(* Such a step changes nothing about poison. *)
LEMMA StillLast ==
  ASSUME PoisonLast, Still
  PROVE  PoisonLast'
<1>1. Cells(POISON)' = Cells(POISON) /\ (Pending' => Pending)
  BY DEF Still, Cells, Pending
<1>2. POISON # NULL
  BY NullAssumption, ServerAssumption
<1> QED
  BY <1>1, <1>2 DEF Still, PoisonLast

(* A step that moves one thread, and not to or from a place with a value. *)
LEMMA OneMoves ==
  ASSUME ServerInv, NEW t \in Thread, NEW label, Goto(t, label), label \notin {"got", "get_free"},
         \A u \in Thread \ {t} : msg'[u] = msg[u], UNCHANGED <<sock, val>>
  PROVE  \A u \in Thread : Taken(u)' \in {Taken(u), NULL}
  BY DEF Goto, Taken, ServerInv, IInv, TypeOK

(* The steps inside the queue that are still. *)
LEMMA InsideStill ==
  ASSUME ServerInv, NEW t \in Thread, Inside(t), UNCHANGED serverVars
  PROVE  Still \/ PutAppend(t) \/ GetRemove(t) \/ GetFree(t) \/ DestroyFree(t)
<1> USE ServerAssumption DEF ServerInv, IInv, TypeOK, DataTypeOK
<1>d. DeadSet' = DeadSet /\ UNCHANGED <<failures, mpc>>
  BY DEF DeadSet, Dead, serverVars
<1>1. CASE PutLock(t)
  <2>1. \A u \in Thread : Taken(u)' \in {Taken(u), NULL}
    BY <1>1, OneMoves DEF PutLock, listVars
  <2> QED
    BY <1>1, <1>d, <2>1 DEF Still, PutLock, listVars, At, Goto
<1>2. CASE PutCount(t)
  <2>1. \A u \in Thread : Taken(u)' \in {Taken(u), NULL}
    BY <1>2, OneMoves DEF PutCount
  <2> QED
    BY <1>2, <1>d, <2>1 DEF Still, PutCount, At, Goto
<1>3. CASE PutWake(t)
  <2>1. \A u \in Thread : pc'[u] = pc[u] \/ pc'[u] \in {"put_count", "get_lock"}
    BY <1>3 DEF PutWake
  <2>2. \A u \in Thread : Taken(u)' \in {Taken(u), NULL}
    BY <1>3, <2>1 DEF Taken, PutWake, listVars
  <2> QED
    BY <1>3, <1>d, <2>1, <2>2 DEF Still, PutWake, listVars
<1>4. CASE GetLock(t) \/ GetWait(t)
  <2>1. \A u \in Thread : Taken(u)' \in {Taken(u), NULL}
    BY <1>4, OneMoves DEF GetLock, GetWait, listVars
  <2> QED
    BY <1>4, <1>d, <2>1 DEF Still, GetLock, GetWait, listVars, At, Goto
<1>5. CASE DestroyLock(t) \/ DestroyEnd(t)
  <2>1. \A u \in Thread : Taken(u)' \in {Taken(u), NULL}
    BY <1>5, OneMoves DEF DestroyLock, DestroyEnd, listVars
  <2> QED
    BY <1>5, <1>d, <2>1 DEF Still, DestroyLock, DestroyEnd, listVars, At, Goto
<1> QED
  BY <1>1, <1>2, <1>3, <1>4, <1>5 DEF Inside

(* Only main puts, so only main appends; what it appends is poison once the
   accept loop is left. *)
LEMMA AppendLast ==
  ASSUME ConnInv, NEW t \in Thread, PutAppend(t), UNCHANGED serverVars
  PROVE  PoisonLast'
<1> USE ServerAssumption, NullAssumption DEF ConnInv
<1>1. t = Main
  BY DEF PutAppend, At, ServerInv, Roles, WorkerPlace
<1>2. /\ pc[Main] = "put_append" /\ pc' = [pc EXCEPT ![Main] = "put_wake"]
      /\ order' = Append(order, msg[Main])
      /\ UNCHANGED <<msg, sock, val, heap, mpc, worker, failures>>
  BY <1>1 DEF PutAppend, At, Goto, serverVars
<1>3. msg[Main] \in Node /\ val[msg[Main]] \in Value
  BY <1>2 DEF ServerInv, IInv, TypeOK, DataTypeOK, HeapAccounts, MessagesOK, Owns
<1>4. /\ Len(order) \in Nat /\ Len(order') = Len(order) + 1
      /\ \A i \in 1..Len(order) : order'[i] = order[i]
      /\ order'[Len(order) + 1] = msg[Main]
  BY <1>2, <1>3 DEF ServerInv, IInv, TypeOK, DataTypeOK
<1>5. Cells(POISON)' = Cells(POISON) /\ DeadSet' = DeadSet
  BY <1>2 DEF Cells, DeadSet, Dead
<1>6. \A u \in Thread : Taken(u)' = Taken(u)
  BY <1>2 DEF Taken, ServerInv, IInv, TypeOK
<1>7. pc'[Main] = "put_wake"
  BY <1>2 DEF ServerInv, IInv, TypeOK
<1>8. Pending' => Pending
  BY <1>2, <1>4 DEF Pending, PoisonLast
<1>9. ASSUME NEW i \in 1..Len(order), val[order[i]] = POISON PROVE val[msg[Main]] = POISON
  <2>1. order[i] \in Cells(POISON)
    BY <1>9, ListedCells DEF Cells
  <2> QED
    BY <1>2, <2>1 DEF PoisonLast
<1>10. (\A i, j \in 1..Len(order) : i < j /\ val[order[i]] = POISON => val[order[j]] = POISON)'
  <2> SUFFICES ASSUME NEW i \in 1..Len(order'), NEW j \in 1..Len(order'), i < j, val[order'[i]] = POISON
               PROVE  val[order'[j]] = POISON
    BY <1>2
  <2>1. i \in 1..Len(order) /\ val[order[i]] = POISON
    BY <1>4
  <2> QED
    BY <1>4, <1>9, <2>1 DEF PoisonLast
<1> QED
  BY <1>2, <1>5, <1>6, <1>7, <1>8, <1>10 DEF PoisonLast

(* Removing the head keeps the order of the rest; the worker takes poison only
   when nothing else is left. *)
LEMMA RemoveLast ==
  ASSUME ConnInv, NEW t \in Thread, GetRemove(t), UNCHANGED serverVars
  PROVE  PoisonLast'
<1> USE ServerAssumption, NullAssumption DEF ConnInv
<1>1. /\ t # Main /\ first # NULL /\ order' = Tail(order)
      /\ pc' = [pc EXCEPT ![t] = "get_free"] /\ msg' = [msg EXCEPT ![t] = first]
      /\ UNCHANGED <<sock, val, heap, mpc, worker, failures>>
  BY DEF GetRemove, At, Goto, ServerInv, Roles, MainPlace, serverVars
<1>2. /\ first \in Node /\ first = order[1] /\ Len(order) \in Nat /\ Len(order) >= 1
      /\ Len(order') = Len(order) - 1
      /\ \A i \in 1..Len(order') : order'[i] = order[i + 1]
  BY <1>1, TailOfList DEF ServerInv, IInv
<1>3. Cells(POISON)' = Cells(POISON) /\ DeadSet' = DeadSet
  BY <1>1 DEF Cells, DeadSet, Dead
<1>4. pc'[Main] = pc[Main] /\ msg'[Main] = msg[Main]
  BY <1>1 DEF ServerInv, IInv, TypeOK, DataTypeOK
<1>5. Taken(t)' = val[first] /\ \A u \in Thread \ {t} : Taken(u)' = Taken(u)
  BY <1>1 DEF Taken, ServerInv, IInv, TypeOK, DataTypeOK
<1>6. Pending' => Pending
  BY <1>1, <1>2 DEF Pending
<1>7. (\A i, j \in 1..Len(order) : i < j /\ val[order[i]] = POISON => val[order[j]] = POISON)'
  <2> SUFFICES ASSUME NEW i \in 1..Len(order'), NEW j \in 1..Len(order'), i < j, val[order'[i]] = POISON
               PROVE  val[order'[j]] = POISON
    BY <1>1
  <2>1. i + 1 \in 1..Len(order) /\ j + 1 \in 1..Len(order) /\ i + 1 < j + 1
    BY <1>2
  <2>2. order'[i] = order[i + 1] /\ order'[j] = order[j + 1]
    BY <1>2
  <2> QED
    BY <2>1, <2>2 DEF PoisonLast
<1>8. val[first] = POISON => ~Pending'
  <2> SUFFICES ASSUME val[order[1]] = POISON PROVE ~Pending'
    BY <1>2
  <2>1. mpc # "accept"
    BY <1>2, ListedCells DEF PoisonLast, Cells
  <2>2. \A i \in 1..Len(order') : val[order'[i]] = POISON
    BY <1>2 DEF PoisonLast
  <2> QED
    BY <1>1, <2>1, <2>2 DEF Pending
<1> QED
  BY <1>1, <1>3, <1>4, <1>5, <1>6, <1>7, <1>8 DEF PoisonLast

(* Freeing the cell of a value that was taken. *)
LEMMA GetFreeLast ==
  ASSUME ConnInv, NEW t \in Thread, GetFree(t), UNCHANGED serverVars
  PROVE  PoisonLast'
<1> USE ServerAssumption, NullAssumption DEF ConnInv
<1>1. /\ pc[t] = "get_free" /\ pc' = [pc EXCEPT ![t] = "got"] /\ t # Main
      /\ sock' = [sock EXCEPT ![t] = val[msg[t]]]
      /\ msg' = [msg EXCEPT ![t] = NULL]
      /\ val' = [val EXCEPT ![msg[t]] = NULL]
      /\ UNCHANGED <<order, mpc, worker, failures>>
  BY DEF GetFree, At, Goto, Free, ServerInv, Roles, MainPlace, serverVars
<1>2. msg[t] \notin OnList /\ Cells(POISON)' = Cells(POISON) \ {msg[t]}
  BY FreePlaces
<1>3. \A i \in 1..Len(order) : val'[order[i]] = val[order[i]]
  BY <1>1, <1>2, ListedCells DEF OnList, ServerInv, IInv, TypeOK, DataTypeOK
<1>4. DeadSet' = DeadSet
  BY <1>1 DEF DeadSet, Dead
<1>5. pc'[Main] = pc[Main] /\ msg'[Main] = msg[Main]
  BY <1>1 DEF ServerInv, IInv, TypeOK, DataTypeOK
<1>6. pc[Main] \in {"put_lock", "put_append"} => msg[Main] # msg[t] /\ msg[Main] \in Node
  BY <1>1 DEF ServerInv, IInv, HeapAccounts, Owns, TypeOK, DataTypeOK
<1>7. pc[Main] \in {"put_lock", "put_append"} => val'[msg[Main]] = val[msg[Main]]
  BY <1>1, <1>6 DEF ServerInv, IInv, TypeOK, DataTypeOK
<1>8. ASSUME NEW u \in Thread PROVE Taken(u)' = Taken(u)
  <2>1. CASE u = t
    BY <1>1, <2>1 DEF Taken, ServerInv, IInv, TypeOK, DataTypeOK
  <2>2. CASE u # t
    <3>1. pc'[u] = pc[u] /\ sock'[u] = sock[u] /\ msg'[u] = msg[u]
      BY <1>1, <2>2 DEF ServerInv, IInv, TypeOK, DataTypeOK
    <3>2. pc[u] = "get_free" => val'[msg[u]] = val[msg[u]]
      BY <1>1, <2>2 DEF ServerInv, IInv, TypeOK, DataTypeOK, HeapAccounts, Owns
    <3> QED
      BY <3>1, <3>2 DEF Taken
  <2> QED
    BY <2>1, <2>2
<1>9. Pending' => Pending
  BY <1>1, <1>3 DEF Pending
<1>10. (\A i, j \in 1..Len(order) : i < j /\ val[order[i]] = POISON => val[order[j]] = POISON)'
  BY <1>1, <1>3 DEF PoisonLast
<1> QED
  BY <1>1, <1>2, <1>4, <1>5, <1>7, <1>8, <1>9, <1>10 DEF PoisonLast

(* queue_destroy frees the head. *)
LEMMA DestroyLast ==
  ASSUME ConnInv, NEW t \in Thread, DestroyFree(t), UNCHANGED serverVars
  PROVE  PoisonLast'
<1> USE ServerAssumption, NullAssumption DEF ConnInv
<1>1. /\ mpc = "destroy" /\ pc[Main] = "destroy_loop" /\ order' = Tail(order) /\ first # NULL
      /\ val' = [val EXCEPT ![first] = NULL]
      /\ UNCHANGED <<pc, msg, sock, mpc, worker, failures>>
  BY DEF DestroyFree, At, Free, ServerInv, Roles, WorkerPlace, serverVars
<1>2. /\ first \in Node /\ first = order[1] /\ Len(order) \in Nat /\ Len(order) >= 1
      /\ Len(order') = Len(order) - 1
      /\ \A i \in 1..Len(order') : order'[i] = order[i + 1] /\ order[i + 1] # first
  BY <1>1, TailOfList DEF ServerInv, IInv
<1>3. ASSUME NEW i \in 1..Len(order')
      PROVE  i + 1 \in 1..Len(order) /\ val'[order'[i]] = val[order[i + 1]]
  BY <1>1, <1>2, ListedCells DEF ServerInv, IInv, TypeOK, DataTypeOK
<1>4. DeadSet' = DeadSet
  BY <1>1 DEF DeadSet, Dead
<1>5. \A u \in Thread : Taken(u)' = NULL
  BY <1>1 DEF Taken, ServerInv, Roles
<1>6. Pending' => Pending
  BY <1>1, <1>3 DEF Pending
<1>7. (\A i, j \in 1..Len(order) : i < j /\ val[order[i]] = POISON => val[order[j]] = POISON)'
  <2> SUFFICES ASSUME NEW i \in 1..Len(order'), NEW j \in 1..Len(order'), i < j, val'[order'[i]] = POISON
               PROVE  val'[order'[j]] = POISON
    OBVIOUS
  <2>1. i + 1 < j + 1
    BY <1>2
  <2> QED
    BY <1>3, <2>1 DEF PoisonLast
<1> QED
  BY <1>1, <1>4, <1>5, <1>6, <1>7 DEF PoisonLast

(* A put that begins, of a connection before the end and of poison after it. *)
LEMMA PutLast ==
  ASSUME ConnInv, NEW s \in Value, PutAlloc(Main, s), UNCHANGED <<mpc, worker, failures>>,
         mpc = "accept" <=> s # POISON
  PROVE  PoisonLast'
<1> USE ServerAssumption, NullAssumption DEF ConnInv
<1>1. PICK n \in Node \ heap :
        /\ msg'[Main] = n /\ val'[n] = s
        /\ \A m \in heap : val'[m] = val[m]
        /\ \A v \in Value \ {s} : Cells(v)' = Cells(v)
  BY AllocPlaces
<1>2. /\ pc' = [pc EXCEPT ![Main] = "put_lock"] /\ UNCHANGED <<sock, order>>
      /\ \A u \in Thread \ {Main} : msg'[u] = msg[u]
  BY DEF PutAlloc, Goto, ServerInv, IInv, TypeOK, DataTypeOK
<1>3. DeadSet' = DeadSet
  BY DEF DeadSet, Dead
<1>4. \A i \in 1..Len(order) : val'[order[i]] = val[order[i]]
  BY <1>1, ListedCells
<1>5. ASSUME NEW u \in Thread PROVE Taken(u)' \in {Taken(u), NULL}
  <2>1. CASE u = Main
    BY <1>2, <2>1 DEF Taken, ServerInv, IInv, TypeOK
  <2>2. CASE u # Main
    <3>1. pc'[u] = pc[u] /\ sock'[u] = sock[u] /\ msg'[u] = msg[u]
      BY <1>2, <2>2 DEF ServerInv, IInv, TypeOK, DataTypeOK
    <3>2. pc[u] = "get_free" => val'[msg[u]] = val[msg[u]]
      BY <1>1 DEF ServerInv, IInv, HeapAccounts, Owns
    <3> QED
      BY <3>1, <3>2 DEF Taken
  <2> QED
    BY <2>1, <2>2
<1>6. Pending' => Pending
  BY <1>2, <1>4 DEF Pending
<1>7. (\A i, j \in 1..Len(order) : i < j /\ val[order[i]] = POISON => val[order[j]] = POISON)'
  BY <1>2, <1>4 DEF PoisonLast
<1> QED
  BY <1>1, <1>3, <1>5, <1>6, <1>7 DEF PoisonLast

(* The dead are finitely many, and one more when a worker dies. *)
LEMMA OneMoreDead ==
  ASSUME ServerInv, NEW w \in Worker, GetReturn(w), worker' = [worker EXCEPT ![w] = "dead"]
  PROVE  /\ Cardinality(DeadSet) \in Nat
         /\ Cardinality(DeadSet)' = Cardinality(DeadSet) + 1
<1>1. DeadSet' = DeadSet \cup {w} /\ w \notin DeadSet
  BY DEF DeadSet, Dead, ServerInv, ServerDataTypeOK, Roles, GetReturn, At
<1>2. DeadSet \in SUBSET Worker /\ IsFiniteSet(Worker)
  BY ServerAssumption DEF DeadSet
<1>3. IsFiniteSet(DeadSet) /\ Cardinality(DeadSet) \in Nat
  BY <1>2, FS_Subset, FS_CardinalityType
<1>4. Cardinality(DeadSet \cup {w}) = Cardinality(DeadSet) + 1
  BY <1>1, <1>3, FS_AddElement
<1> QED
  BY <1>1, <1>3, <1>4

(* A worker dies of poison, which it can have only when no connection is left
   on the list, or of a failure, which is counted. *)
LEMMA DeathLast ==
  ASSUME ConnInv, NEW w \in Worker, GetReturn(w), worker' = [worker EXCEPT ![w] = "dead"],
         mpc' = mpc, (sock[w] = POISON /\ failures' = failures) \/ failures' = failures + 1
  PROVE  PoisonLast'
<1> USE ServerAssumption, NullAssumption DEF ConnInv
<1>1. /\ pc[w] = "got" /\ pc' = [pc EXCEPT ![w] = "idle"] /\ w # Main
      /\ UNCHANGED <<msg, order, val, heap>>
      /\ \A u \in Thread \ {w} : sock'[u] = sock[u]
  BY DEF GetReturn, At, Goto, listVars, ServerInv, IInv, TypeOK, DataTypeOK
<1>2. Cells(POISON)' = Cells(POISON) /\ (Pending' <=> Pending)
  BY <1>1 DEF Cells, Pending
<1>3. pc'[Main] = pc[Main]
  BY <1>1 DEF ServerInv, IInv, TypeOK
<1>4. \A u \in Thread : Taken(u)' \in {Taken(u), NULL}
  BY <1>1 DEF Taken, ServerInv, IInv, TypeOK
<1>5. Pending => sock[w] # POISON
  BY <1>1 DEF PoisonLast, Taken
<1>6. Pending' => Cardinality(DeadSet)' = failures'
  BY <1>2, <1>5, OneMoreDead DEF PoisonLast
<1> QED
  BY <1>1, <1>2, <1>3, <1>4, <1>6 DEF PoisonLast

(* A step that leaves the queue alone, and one of a thread that comes or goes. *)
LEMMA IdleStill ==
  ASSUME ServerInv, UNCHANGED <<order, heap, val, msg, worker, failures>>,
         mpc' = mpc \/ (mpc' # "accept" /\ pc[Main] = "idle" /\ pc'[Main] \notin {"put_lock", "put_append"}),
         \/ UNCHANGED <<pc, sock>>
         \/ \E t \in Thread : \E label \in {"idle", "get_lock", "destroy_lock"} :
              Goto(t, label) /\ \A u \in Thread \ {t} : sock'[u] = sock[u]
  PROVE  Still
<1> USE DEF ServerInv, IInv, TypeOK, DataTypeOK
<1>1. DeadSet' = DeadSet
  BY DEF DeadSet, Dead
<1>2. CASE UNCHANGED <<pc, sock>>
  <2>1. \A u \in Thread : Taken(u)' = Taken(u)
    BY <1>2 DEF Taken
  <2> QED
    BY <1>1, <1>2, <2>1 DEF Still
<1>3. ASSUME NEW t \in Thread, NEW label \in {"idle", "get_lock", "destroy_lock"}, Goto(t, label),
             \A u \in Thread \ {t} : sock'[u] = sock[u]
      PROVE  Still
  <2>1. pc'[t] = label /\ \A u \in Thread \ {t} : pc'[u] = pc[u]
    BY <1>3 DEF Goto
  <2>2. \A u \in Thread : Taken(u)' \in {Taken(u), NULL}
    BY <1>3, <2>1 DEF Taken
  <2>3. pc'[Main] \in {"put_lock", "put_append"} => pc[Main] = pc'[Main]
    BY <2>1, ServerAssumption
  <2> QED
    BY <1>1, <2>2, <2>3 DEF Still
<1> QED
  BY <1>2, <1>3

(* Every step keeps poison behind the connections. *)
LEMMA StepLast == ConnInv /\ [ServerNext]_allVars => PoisonLast'
<1> SUFFICES ASSUME ConnInv, [ServerNext]_allVars PROVE PoisonLast'
  OBVIOUS
<1> USE ServerAssumption DEF ConnInv
<1>i. ASSUME NEW t \in Thread, Inside(t), UNCHANGED serverVars PROVE PoisonLast'
  BY <1>i, InsideStill, StillLast, AppendLast, RemoveLast, GetFreeLast, DestroyLast
<1>r. ASSUME NEW w \in Worker, GetReturn(w), UNCHANGED <<mpc, worker, failures>> PROVE PoisonLast'
  <2>1. /\ Goto(w, "idle") /\ UNCHANGED <<order, heap, val, msg>>
        /\ \A u \in Thread \ {w} : sock'[u] = sock[u]
    BY <1>r DEF GetReturn, listVars, ServerInv, IInv, TypeOK, DataTypeOK
  <2> QED
    BY <1>r, <2>1, IdleStill, StillLast
<1>1. CASE MainStep
  <2>1. CASE PutPoison
    BY <2>1, PutLast DEF PutPoison
  <2>2. CASE EndOfPoison
    BY <2>2, IdleStill, StillLast DEF EndOfPoison, At, vars, listVars
  <2>3. CASE Join
    <3>1. /\ Goto(Main, "destroy_lock") /\ UNCHANGED <<order, heap, val, msg, sock, worker, failures>>
          /\ mpc' # "accept" /\ pc[Main] = "idle" /\ pc'[Main] = "destroy_lock"
      BY <2>3 DEF Join, DestroyCall, At, Goto, listVars, ServerInv, IInv, TypeOK
    <3> QED
      BY <3>1, IdleStill, StillLast
  <2>4. CASE ReturnFromMain
    BY <2>4, IdleStill, StillLast DEF ReturnFromMain, Exit, listVars, serverVars
  <2> QED
    BY <1>1, <1>i, <2>1, <2>2, <2>3, <2>4 DEF MainStep
<1>2. ASSUME NEW w \in Worker, WorkerStep(w) PROVE PoisonLast'
  <2>1. CASE WorkerGet(w)
    <3>1. Goto(w, "get_lock") /\ UNCHANGED <<order, heap, val, msg, sock, worker, failures, mpc>>
      BY <2>1 DEF WorkerGet, GetCall, listVars, serverVars
    <3> QED
      BY <3>1, IdleStill, StillLast
  <2>2. CASE Open(w)
    BY <2>2, IdleStill, StillLast DEF Open, vars, listVars
  <2>3. CASE Poisoned(w)
    BY <2>3, DeathLast DEF Poisoned
  <2>4. CASE Serve(w)
    BY <1>r, <2>4 DEF Serve
  <2> QED
    BY <1>2, <1>i, <2>1, <2>2, <2>3, <2>4 DEF WorkerStep
<1>3. CASE Environment
  <2>1. ASSUME NEW c \in Conn, Accept(c) PROVE PoisonLast'
    BY <2>1, PutLast DEF Accept
  <2>2. CASE AcceptFails
    BY <2>2, IdleStill, StillLast DEF AcceptFails, PutOutOfMemory, listVars, serverVars
  <2>3. CASE SigintInAccept
    BY <2>3, IdleStill, StillLast DEF SigintInAccept, At, vars, listVars
  <2>4. CASE SigintElsewhere
    BY <2>4, IdleStill, StillLast DEF SigintElsewhere, vars, listVars
  <2>5. ASSUME NEW w \in Worker, PeerGone(w) PROVE PoisonLast'
    BY <2>5, IdleStill, StillLast DEF PeerGone, Exit, listVars, serverVars
  <2>6. ASSUME NEW w \in Worker, FdopenFails(w) PROVE PoisonLast'
    BY <2>6, DeathLast DEF FdopenFails
  <2>7. ASSUME NEW w \in Worker, SigintInRead(w) PROVE PoisonLast'
    BY <1>r, <2>7 DEF SigintInRead
  <2>8. ASSUME NEW t \in Thread, SpuriousWakeup(t), UNCHANGED serverVars PROVE PoisonLast'
    <3>1. Goto(t, "get_lock") /\ UNCHANGED <<order, heap, val, msg, sock, worker, failures, mpc>>
      BY <2>8 DEF SpuriousWakeup, listVars, serverVars
    <3> QED
      BY <3>1, IdleStill, StillLast
  <2> QED
    BY <1>3, <2>1, <2>2, <2>3, <2>4, <2>5, <2>6, <2>7, <2>8 DEF Environment
<1>4. CASE UNCHANGED allVars
  BY <1>4, IdleStill, StillLast DEF allVars, vars, listVars, serverVars
<1> QED
  BY <1>1, <1>2, <1>3, <1>4 DEF ServerNext

-----------------------------------------------------------------------------
(* The account of poison *)

(* All that is counted is finite. *)
LEMMA FinitePlaces ==
  ASSUME IsFiniteSet(heap), NEW v
  PROVE  /\ IsFiniteSet(Cells(v)) /\ Cardinality(Cells(v)) \in Nat
         /\ IsFiniteSet(Hands(v)) /\ Cardinality(Hands(v)) \in Nat
<1>1. IsFiniteSet(Worker \cup {Main})
  BY ServerAssumption, FS_AddElement
<1>2. Cells(v) \in SUBSET heap /\ Hands(v) \in SUBSET Thread /\ IsFiniteSet(Thread)
  BY <1>1, ServerAssumption DEF Cells, Hands
<1>3. IsFiniteSet(Cells(v)) /\ IsFiniteSet(Hands(v))
  BY <1>2, FS_Subset
<1> QED
  BY <1>3, FS_CardinalityType

(* What the account is taken of stays as it is. *)
LEMMA SameCount ==
  ASSUME PoisonCount, IsFiniteSet(heap)', UNCHANGED <<poisoned, failures>>,
         DeadSet' = DeadSet, Cells(POISON)' = Cells(POISON), Hands(POISON)' = Hands(POISON),
         mpc' = mpc \/ (mpc # "destroy" /\ (mpc' \in {"join", "destroy"} => poisoned = Cardinality(Worker))),
         failures = 0 => \A c \in Conn : fd'[c] # "leaked"
  PROVE  PoisonCount'
  BY DEF PoisonCount

(* A step that moves no value, descriptor or worker. *)
LEMMA QuietCount ==
  ASSUME PoisonCount, Quiet, UNCHANGED <<worker, fd, poisoned, failures>>,
         mpc' = mpc \/ (mpc # "destroy" /\ (mpc' \in {"join", "destroy"} => poisoned = Cardinality(Worker)))
  PROVE  PoisonCount'
<1>1. DeadSet' = DeadSet /\ Cells(POISON)' = Cells(POISON) /\ Hands(POISON)' = Hands(POISON)
  BY QuietPlaces DEF DeadSet, Dead
<1>2. IsFiniteSet(heap)' /\ (failures = 0 => \A c \in Conn : fd'[c] # "leaked")
  BY DEF Quiet, PoisonCount
<1> QED
  BY <1>1, <1>2, SameCount

(* A connection is no poison. *)
LEMMA AcceptCount ==
  ASSUME ConnInv, NEW c \in Conn, Accept(c)
  PROVE  PoisonCount'
<1> USE ServerAssumption DEF ConnInv
<1>1. PutAlloc(Main, c) /\ fd' = [fd EXCEPT ![c] = "accepted"]
      /\ UNCHANGED <<mpc, worker, poisoned, failures>>
  BY DEF Accept, SetFd
<1>2. PICK n \in Node \ heap :
        /\ heap' = heap \cup {n}
        /\ \A v \in Value \ {c} : Cells(v)' = Cells(v)
        /\ \A v : Hands(v)' = Hands(v)
  BY <1>1, AllocPlaces
<1>3. IsFiniteSet(heap)'
  BY <1>2, FS_AddElement DEF PoisonCount
<1>4. DeadSet' = DeadSet
  BY <1>1 DEF DeadSet, Dead
<1>5. failures = 0 => \A d \in Conn : fd'[d] # "leaked"
  BY <1>1 DEF PoisonCount, ServerInv, ServerDataTypeOK
<1> QED
  BY <1>1, <1>2, <1>3, <1>4, <1>5, SameCount

(* Main puts one more poison. *)
LEMMA PutPoisonCount ==
  ASSUME ConnInv, PutPoison
  PROVE  PoisonCount'
<1> USE ServerAssumption DEF ConnInv
<1>1. PutAlloc(Main, POISON) /\ mpc = "poison" /\ poisoned' = poisoned + 1
      /\ UNCHANGED <<mpc, worker, fd, failures>>
  BY DEF PutPoison
<1>2. PICK n \in Node \ heap :
        /\ heap' = heap \cup {n}
        /\ Cells(POISON)' = Cells(POISON) \cup {n} /\ n \notin Cells(POISON)
        /\ Hands(POISON)' = Hands(POISON)
  BY <1>1, AllocPlaces
<1>3. IsFiniteSet(heap)'
  BY <1>2, FS_AddElement DEF PoisonCount
<1>4. DeadSet' = DeadSet
  BY <1>1 DEF DeadSet, Dead
<1>5. Cardinality(Cells(POISON) \cup {n}) = Cardinality(Cells(POISON)) + 1
  BY <1>2, FinitePlaces, FS_AddElement DEF PoisonCount
<1>6. Cardinality(Cells(POISON)) \in Nat /\ Cardinality(Hands(POISON)) \in Nat
  BY FinitePlaces DEF PoisonCount
<1>7. Cardinality(DeadSet) \in Nat
  BY FS_Subset, FS_CardinalityType DEF DeadSet
<1> QED
  BY <1>1, <1>2, <1>3, <1>4, <1>5, <1>6, <1>7, PoolSize DEF PoisonCount, ServerInv, ServerDataTypeOK

(* A value goes from a cell to a hand. *)
LEMMA GetFreeCount ==
  ASSUME ConnInv, NEW t \in Thread, GetFree(t), UNCHANGED serverVars
  PROVE  PoisonCount'
<1> USE ServerAssumption DEF ConnInv
<1>1. /\ msg[t] \in heap /\ Cells(POISON)' = Cells(POISON) \ {msg[t]} /\ t \notin Hands(POISON)
      /\ Hands(POISON)' = IF val[msg[t]] = POISON THEN Hands(POISON) \cup {t} ELSE Hands(POISON)
  BY FreePlaces
<1>2. msg[t] \in Cells(POISON) <=> val[msg[t]] = POISON
  BY <1>1 DEF Cells
<1>3. heap' = heap \ {msg[t]} /\ UNCHANGED <<mpc, worker, fd, poisoned, failures>>
  BY DEF GetFree, Free, serverVars
<1>4. IsFiniteSet(heap)' /\ IsFiniteSet(heap)
  BY <1>3, FS_RemoveElement DEF PoisonCount
<1>5. DeadSet' = DeadSet
  BY <1>3 DEF DeadSet, Dead
<1>6. CASE val[msg[t]] = POISON
  <2>1. Cardinality(Cells(POISON) \ {msg[t]}) = Cardinality(Cells(POISON)) - 1
    BY <1>2, <1>4, <1>6, FinitePlaces, FS_RemoveElement
  <2>2. Cardinality(Hands(POISON) \cup {t}) = Cardinality(Hands(POISON)) + 1
    BY <1>1, <1>4, FinitePlaces, FS_AddElement
  <2>3. Cardinality(Cells(POISON)) \in Nat /\ Cardinality(Hands(POISON)) \in Nat
    BY <1>4, FinitePlaces
  <2>4. Cardinality(Cells(POISON))' + Cardinality(Hands(POISON))'
          = Cardinality(Cells(POISON)) + Cardinality(Hands(POISON))
    BY <1>1, <1>6, <2>1, <2>2, <2>3
  <2> QED
    BY <1>3, <1>4, <1>5, <2>4 DEF PoisonCount
<1>7. CASE val[msg[t]] # POISON
  BY <1>1, <1>2, <1>3, <1>4, <1>5, <1>7, SameCount DEF PoisonCount
<1> QED
  BY <1>6, <1>7

(* A connection is closed. *)
LEMMA ReturnCount ==
  ASSUME ConnInv, NEW w \in Worker, GetReturn(w), sock[w] # POISON, SetFd(sock[w], "free"),
         UNCHANGED <<mpc, worker, poisoned, failures>>
  PROVE  PoisonCount'
<1> USE ServerAssumption DEF ConnInv
<1>1. Cells(POISON)' = Cells(POISON) /\ Hands(POISON)' = Hands(POISON)
  BY ReturnPlaces
<1>2. DeadSet' = DeadSet /\ UNCHANGED heap
  BY DEF DeadSet, Dead, GetReturn, listVars
<1>3. failures = 0 => \A c \in Conn : fd'[c] # "leaked"
  BY DEF PoisonCount, SetFd, ServerInv, ServerDataTypeOK
<1> QED
  BY <1>1, <1>2, <1>3, SameCount DEF PoisonCount

(* A worker dies of one poison, or of one failure. *)
LEMMA DeathCount ==
  ASSUME ConnInv, NEW w \in Worker, GetReturn(w), worker' = [worker EXCEPT ![w] = "dead"],
         UNCHANGED <<mpc, poisoned>>,
         \/ sock[w] = POISON /\ failures' = failures /\ fd' = fd
         \/ sock[w] # POISON /\ failures' = failures + 1
  PROVE  PoisonCount'
<1> USE ServerAssumption DEF ConnInv
<1>1. /\ Cells(POISON)' = Cells(POISON) /\ Hands(POISON)' = Hands(POISON) \ {w}
      /\ w \in Hands(POISON) <=> sock[w] = POISON
  BY ReturnPlaces
<1>2. UNCHANGED heap /\ IsFiniteSet(heap)
  BY DEF GetReturn, listVars, PoisonCount
<1>3. Cardinality(DeadSet) \in Nat /\ Cardinality(DeadSet)' = Cardinality(DeadSet) + 1
  BY OneMoreDead
<1>4. Cardinality(Cells(POISON)) \in Nat /\ Cardinality(Hands(POISON)) \in Nat
  BY <1>2, FinitePlaces
<1>5. mpc # "destroy"
  BY ServerAssumption DEF GetReturn, At, ServerInv, Roles
<1>6. failures \in Nat /\ poisoned \in Nat
  BY PoolSize DEF ServerInv, ServerDataTypeOK
<1>7. CASE sock[w] = POISON
  <2>1. Cardinality(Hands(POISON) \ {w}) = Cardinality(Hands(POISON)) - 1
    BY <1>1, <1>2, <1>7, FinitePlaces, FS_RemoveElement
  <2>2. Cardinality(Hands(POISON))' = Cardinality(Hands(POISON)) - 1
    BY <1>1, <2>1
  <2> QED
    BY <1>1, <1>2, <1>3, <1>4, <1>5, <1>6, <1>7, <2>2 DEF PoisonCount
<1>8. CASE sock[w] # POISON
  <2>1. Hands(POISON)' = Hands(POISON)
    BY <1>1, <1>8
  <2>2. failures' = failures + 1 /\ failures' # 0
    BY <1>6, <1>8
  <2>3. Cardinality(Cells(POISON)) + Cardinality(Hands(POISON)) + Cardinality(DeadSet)
          = poisoned + failures
    BY <1>5 DEF PoisonCount
  <2>4. Cardinality(Cells(POISON))' = Cardinality(Cells(POISON))
        /\ Cardinality(Hands(POISON))' = Cardinality(Hands(POISON))
    BY <1>1, <2>1
  <2>5. Cardinality(Cells(POISON))' + Cardinality(Hands(POISON))' + Cardinality(DeadSet)'
          = poisoned' + failures'
    BY <1>3, <1>4, <1>6, <2>2, <2>3, <2>4
  <2> QED
    BY <1>2, <1>5, <2>2, <2>5 DEF PoisonCount
<1> QED
  BY <1>7, <1>8

(* queue_destroy frees something only after a failure. *)
LEMMA DestroyCount ==
  ASSUME ConnInv, NEW t \in Thread, DestroyFree(t), UNCHANGED serverVars
  PROVE  PoisonCount'
<1>1. mpc = "destroy" /\ heap' = heap \ {first} /\ UNCHANGED <<mpc, fd, poisoned, failures>>
  BY ServerAssumption DEF DestroyFree, Free, At, ConnInv, ServerInv, Roles, WorkerPlace, serverVars
<1>2. failures # 0
  <2>1. Len(order) >= 1
    BY DestroyPlaces, ServerAssumption DEF ConnInv
  <2>2. order # <<>>
    BY <2>1
  <2> QED
    BY <1>1, <2>2, EmptyAtEnd
<1>3. IsFiniteSet(heap)'
  BY <1>1, FS_RemoveElement DEF ConnInv, PoisonCount
<1> QED
  BY <1>1, <1>2, <1>3 DEF ConnInv, PoisonCount

(* Every step keeps the account. *)
LEMMA StepCount == ConnInv /\ [ServerNext]_allVars => PoisonCount'
<1> SUFFICES ASSUME ConnInv, [ServerNext]_allVars PROVE PoisonCount'
  OBVIOUS
<1> USE ServerAssumption DEF ConnInv
<1>q. ASSUME UNCHANGED <<heap, val, sock, pc>>, UNCHANGED <<worker, fd, poisoned, failures>>,
             mpc' = mpc \/ (mpc # "destroy" /\ (mpc' \in {"join", "destroy"} => poisoned = Cardinality(Worker)))
      PROVE  PoisonCount'
  BY <1>q, QuietCount DEF Quiet
<1>i. ASSUME NEW t \in Thread, Inside(t), UNCHANGED serverVars PROVE PoisonCount'
  <2>1. CASE Quiet
    BY <1>i, <2>1, QuietCount DEF serverVars
  <2> QED
    BY <1>i, <2>1, InsidePlaces, GetFreeCount, DestroyCount
<1>1. CASE MainStep
  <2>1. CASE EndOfPoison
    BY <1>q, <2>1 DEF EndOfPoison, Poisons, vars, listVars
  <2>2. CASE Join
    <3>1. Quiet
      BY <2>2 DEF Join, DestroyCall, At, Goto, Quiet, listVars, ServerInv, IInv, TypeOK
    <3> QED
      BY <2>2, <3>1, QuietCount DEF Join, PoisonCount
  <2>3. CASE ReturnFromMain
    BY <1>q, <2>3 DEF ReturnFromMain, Exit, serverVars, listVars
  <2> QED
    BY <1>1, <1>i, <2>1, <2>2, <2>3, PutPoisonCount DEF MainStep
<1>2. ASSUME NEW w \in Worker, WorkerStep(w) PROVE PoisonCount'
  <2>1. CASE WorkerGet(w)
    <3>1. Quiet
      BY <2>1 DEF WorkerGet, GetCall, At, Goto, Quiet, listVars, ServerInv, IInv, TypeOK
    <3> QED
      BY <2>1, <3>1, QuietCount DEF WorkerGet, serverVars
  <2>2. CASE Open(w)
    <3>1. DeadSet' = DeadSet /\ Cells(POISON)' = Cells(POISON) /\ Hands(POISON)' = Hands(POISON)
      BY <2>2 DEF Open, vars, listVars, DeadSet, Dead, Cells, Hands
    <3>2. failures = 0 => \A c \in Conn : fd'[c] # "leaked"
      BY <2>2 DEF Open, SetFd, PoisonCount, ServerInv, ServerDataTypeOK
    <3> QED
      BY <2>2, <3>1, <3>2, SameCount DEF Open, vars, listVars, PoisonCount
  <2>3. CASE Poisoned(w)
    BY <2>3, DeathCount DEF Poisoned
  <2>4. CASE Serve(w)
    BY <2>4, ReturnCount DEF Serve
  <2> QED
    BY <1>2, <1>i, <2>1, <2>2, <2>3, <2>4 DEF WorkerStep
<1>3. CASE Environment
  <2>1. CASE AcceptFails
    BY <1>q, <2>1 DEF AcceptFails, PutOutOfMemory, serverVars, listVars
  <2>2. CASE SigintInAccept \/ SigintElsewhere
    BY <1>q, <2>2 DEF SigintInAccept, SigintElsewhere, vars, listVars
  <2>3. ASSUME NEW w \in Worker, PeerGone(w) PROVE PoisonCount'
    BY <1>q, <2>3 DEF PeerGone, Exit, serverVars, listVars
  <2>4. ASSUME NEW w \in Worker, FdopenFails(w) PROVE PoisonCount'
    BY <2>4, DeathCount DEF FdopenFails
  <2>5. ASSUME NEW w \in Worker, SigintInRead(w) PROVE PoisonCount'
    BY <2>5, ReturnCount DEF SigintInRead
  <2>6. ASSUME NEW t \in Thread, SpuriousWakeup(t), UNCHANGED serverVars PROVE PoisonCount'
    <3>1. Quiet
      BY <2>6 DEF SpuriousWakeup, At, Goto, Quiet, listVars, ServerInv, IInv, TypeOK
    <3> QED
      BY <2>6, <3>1, QuietCount DEF serverVars
  <2> QED
    BY <1>3, <2>1, <2>2, <2>3, <2>4, <2>5, <2>6, AcceptCount DEF Environment
<1>4. CASE UNCHANGED allVars
  BY <1>4, <1>q DEF allVars, vars, listVars, serverVars
<1> QED
  BY <1>1, <1>2, <1>3, <1>4 DEF ServerNext

(* The invariant holds throughout. *)
LEMMA ConnInvariant == ServerSpec => []ConnInv
<1>1. ServerInit /\ ServerInv => ConnInv
  <2> SUFFICES ASSUME ServerInit, ServerInv PROVE ConnInv
    OBVIOUS
  <2> USE ServerAssumption, NullAssumption DEF ServerInit, Init
  <2>1. (\A v : Cells(v) = {} /\ Hands(v) = {}) /\ DeadSet = {} /\ heap = {}
    BY DEF Cells, Hands, DeadSet, Dead
  <2>2. Cardinality({}) = 0 /\ IsFiniteSet({})
    BY FS_EmptySet
  <2>3. Placed
    BY <2>1 DEF Placed
  <2>4. PoisonLast
    BY <2>1, <2>2 DEF PoisonLast, Taken
  <2>5. PoisonCount
    <3>1. Cells(POISON) = {} /\ Hands(POISON) = {}
      BY <2>1
    <3>2. Cardinality(Cells(POISON)) + Cardinality(Hands(POISON)) + Cardinality(DeadSet)
            = poisoned + failures
      BY <2>1, <2>2, <3>1
    <3>3. \A c \in Conn : fd[c] # "leaked"
      OBVIOUS
    <3> QED
      BY <2>1, <2>2, <3>2, <3>3 DEF PoisonCount
  <2> QED
    BY <2>3, <2>4, <2>5 DEF ConnInv
<1>2. ConnInv /\ [ServerNext]_allVars /\ ServerInv' => ConnInv'
  BY StepPlaced, StepLast, StepCount DEF ConnInv
<1> QED
  BY <1>1, <1>2, ServerInvariant, PTL DEF ServerSpec

-----------------------------------------------------------------------------
(* The theorems *)

(* Where a cell of a connection is: on the list once, or with one thread. *)
LEMMA CellIsOnePlace ==
  ASSUME ConnInv, NEW c \in Conn, NEW n, Cells(c) = {n}, Hands(c) = {}
  PROVE  \/ \E i : InQueue(c) = {i} /\ InPut(c) = {} /\ InHand(c) = {}
         \/ \E t : InQueue(c) = {} /\ InPut(c) = {t} /\ InHand(c) = {}
         \/ \E t : InQueue(c) = {} /\ InPut(c) = {} /\ InHand(c) = {t}
<1> USE ServerAssumption, NullAssumption DEF ConnInv, ServerInv, IInv
<1>1. n \in heap /\ \A m \in heap : val[m] = c => m = n
  BY DEF Cells
<1>2. \A i \in 1..Len(order) : val[order[i]] = c <=> order[i] = n
  BY <1>1, ListedCells DEF Cells
<1>3. \A t \in Thread : Owns(t) => (val[msg[t]] = c <=> msg[t] = n)
  BY <1>1 DEF HeapAccounts, Cells
<1>4. InHand(c) = {t \in Thread : pc[t] = "get_free" /\ msg[t] = n}
  BY <1>3 DEF InHand, Taken, Hands, Owns
<1>5. InPut(c) = {t \in Thread : pc[t] \in {"put_lock", "put_append"} /\ msg[t] = n}
  BY <1>3 DEF InPut, Owns
<1>6. InQueue(c) = {i \in 1..Len(order) : order[i] = n}
  BY <1>2 DEF InQueue
<1>7. CASE n \in OnList
  <2>1. PICK i \in 1..Len(order) : order[i] = n
    BY <1>7 DEF OnList
  <2>2. InQueue(c) = {i}
    BY <1>6, <2>1 DEF ListShape
  <2>3. InPut(c) = {} /\ InHand(c) = {}
    BY <1>4, <1>5, <1>7 DEF HeapAccounts, Owns
  <2> QED
    BY <2>2, <2>3
<1>8. CASE n \notin OnList
  <2>1. PICK t \in Thread : Owns(t) /\ msg[t] = n
    BY <1>1, <1>8 DEF HeapAccounts
  <2>2. \A u \in Thread : Owns(u) /\ msg[u] = n => u = t
    BY <2>1 DEF HeapAccounts
  <2>3. InQueue(c) = {}
    BY <1>6, <1>8 DEF OnList
  <2>4. CASE pc[t] = "get_free"
    BY <1>4, <1>5, <2>1, <2>2, <2>3, <2>4 DEF Owns
  <2>5. CASE pc[t] \in {"put_lock", "put_append"}
    BY <1>4, <1>5, <2>1, <2>2, <2>3, <2>5 DEF Owns
  <2> QED
    BY <2>1, <2>4, <2>5 DEF Owns
<1> QED
  BY <1>7, <1>8

(* A descriptor is in one place, as long as not every worker is lost. *)
LEMMA ConnOnePlace ==
  ASSUME ConnInv, mpc # "destroy" \/ failures < Cardinality(Worker)
  PROVE  OnePlace
<1> USE ServerAssumption, NullAssumption
<1> SUFFICES ASSUME NEW c \in Conn
             PROVE  Cardinality(InQueue(c)) + Cardinality(InPut(c)) + Cardinality(InHand(c))
                      = IF fd[c] \in {"accepted", "open"} THEN 1 ELSE 0
  BY DEF OnePlace
<1>e. Cardinality({}) = 0 /\ \A x : Cardinality({x}) = 1
  BY FS_EmptySet, FS_Singleton
<1>1. CASE Cells(c) = {}
  <2>1. InQueue(c) = {}
    BY <1>1, ListedCells DEF InQueue, Cells, ConnInv
  <2>2. InPut(c) = {}
    BY <1>1 DEF InPut, Cells, ConnInv, ServerInv, IInv, HeapAccounts, Owns
  <2>3. InHand(c) = Hands(c)
    BY <1>1 DEF InHand, Hands, Taken, Cells, ConnInv, ServerInv, IInv, HeapAccounts, Owns
  <2>4. CASE Hands(c) = {}
    BY <1>1, <1>e, <2>1, <2>2, <2>3, <2>4 DEF ConnInv, Placed
  <2>5. CASE Hands(c) # {}
    <3>0. PICK t : t \in Hands(c)
      BY <2>5
    <3>1. Hands(c) = {t}
      BY <3>0 DEF ConnInv, Placed
    <3>2. fd[c] \in {"accepted", "open"}
      BY <2>5 DEF ConnInv, Placed
    <3> QED
      <4>1. Cardinality(InQueue(c)) = 0 /\ Cardinality(InPut(c)) = 0 /\ Cardinality(InHand(c)) = 1
        BY <1>e, <2>1, <2>2, <2>3, <3>1
      <4> QED
        BY <3>2, <4>1
  <2> QED
    BY <2>4, <2>5
<1>2. CASE Cells(c) # {}
  <2>1. PICK n : Cells(c) = {n}
    BY <1>2 DEF ConnInv, Placed
  <2>2. Hands(c) = {} /\ fd[c] \in {"accepted", "open"}
    BY <1>2 DEF ConnInv, Placed
  <2>3. \/ Cardinality(InQueue(c)) = 1 /\ Cardinality(InPut(c)) = 0 /\ Cardinality(InHand(c)) = 0
        \/ Cardinality(InQueue(c)) = 0 /\ Cardinality(InPut(c)) = 1 /\ Cardinality(InHand(c)) = 0
        \/ Cardinality(InQueue(c)) = 0 /\ Cardinality(InPut(c)) = 0 /\ Cardinality(InHand(c)) = 1
    BY <1>e, <2>1, <2>2, CellIsOnePlace
  <2> QED
    BY <2>2, <2>3
<1> QED
  BY <1>1, <1>2

(* As long as not every worker is lost to a failed fdopen, no connection is
   served twice, served after its fclose, or lost, in any pool. *)
THEOREM OnePlaceCorrect == ServerSpec => [](failures < Cardinality(Worker) => OnePlace)
<1>1. ConnInv => (failures < Cardinality(Worker) => OnePlace)
  BY ConnOnePlace
<1> QED
  BY <1>1, ConnInvariant, PTL

(* ... and whatever failed, up to the end of main. *)
THEOREM OnePlaceBeforeDestroy == ServerSpec => [](mpc # "destroy" => OnePlace)
<1>1. ConnInv => (mpc # "destroy" => OnePlace)
  BY ConnOnePlace
<1> QED
  BY <1>1, ConnInvariant, PTL

(* A shutdown without failures has served every connection it accepted and
   leaves nothing on the list, in any pool. *)
THEOREM ShutdownDrainsCorrect == ServerSpec => []ShutdownDrains
<1>1. ConnInv => ShutdownDrains
  <2> SUFFICES ASSUME ConnInv, mpc = "destroy", failures = 0
               PROVE  order = <<>> /\ \A c \in Conn : fd[c] = "free"
    BY DEF ShutdownDrains
  <2>1. order = <<>> /\ \A c \in Conn : Cells(c) = {} /\ Hands(c) = {}
    BY EmptyAtEnd, ServerAssumption
  <2>2. Cardinality(Worker) \in Nat /\ Cardinality(Worker) # 0
    BY PoolSize, ServerAssumption, FS_EmptySet
  <2>3. \A c \in Conn : fd[c] \notin {"accepted", "open", "leaked"}
    BY <2>1, <2>2 DEF ConnInv, Placed, PoisonCount
  <2> QED
    BY <2>1, <2>3 DEF ConnInv, ServerInv, ServerDataTypeOK
<1> QED
  BY <1>1, ConnInvariant, PTL
=============================================================================
