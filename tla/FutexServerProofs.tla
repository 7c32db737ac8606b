-------------------------- MODULE FutexServerProofs --------------------------
(***************************************************************************)
(* Proofs about FutexQueue, HttpHandler and the server of both,            *)
(* FutexServer.                                                            *)
(*                                                                         *)
(* The queue, seen through the places of LockedQueue, with a thread        *)
(* anywhere in wait taken for one that is about to lock the mutex again    *)
(* and nobody asleep: each of its steps but the unlock is then a step of   *)
(* the locked queue or changes nothing there, and the lemmas of            *)
(* LockedServerProofs about the queue apply. What remains is who was       *)
(* missed by a broadcast.                                                  *)
(*                                                                         *)
(* The handler, through the pool of workers that calls it, for files of    *)
(* any length.                                                             *)
(*                                                                         *)
(* The server: what is proved of the queue and of the handler holds around *)
(* them. A signal that ends a futex wait is a step the queue alone does    *)
(* not have.                                                               *)
(***************************************************************************)
EXTENDS FutexServer, FiniteSetTheorems, TLAPS

-----------------------------------------------------------------------------
(* The places of the locked queue *)

(* The places in wait, from the unlock of queue_get to its next lock. *)
Away == {"wait_read", "wait_sleep", "get_wait"}
Place == [t \in Thread |-> IF pc[t] \in Away THEN "get_lock" ELSE pc[t]]

L == INSTANCE LockedServerProofs WITH pc <- Place, sleepers <- {}

(* The pool of workers is the same seen this way. *)
LEMMA SamePool == L!IsFiniteSet(Worker)
BY ServerAssumption DEF L!IsFiniteSet, IsFiniteSet

(* Every thread on its way to sleep, or asleep, beside a message was passed
   over by a broadcast, unless the one for the message is still to come. *)
Waiting(t) == InGap(t) \/ t \in sleepers
BroadcastIsDue == length = 0 /\ \E t \in Thread : pc[t] = "put_wake"
WaitingWasMissed ==
  order # <<>> /\ ~BroadcastIsDue => \A t \in Thread : Waiting(t) => t \in missed

FutexInv == FutexTypeOK /\ L!IInv /\ WaitingWasMissed

-----------------------------------------------------------------------------
(* The steps of the locked queue *)

(* The steps the two queues share are the same through Place. *)
LEMMA CommonMaps ==
  ASSUME FutexTypeOK, NEW t \in Thread
  PROVE  /\ PutLock(t) => L!PutLock(t)
         /\ PutAppend(t) => L!PutAppend(t)
         /\ PutCount(t) => L!PutCount(t)
         /\ GetLock(t) => L!GetLock(t)
         /\ GetRemove(t) => L!GetRemove(t)
         /\ GetFree(t) => L!GetFree(t)
         /\ GetReturn(t) => L!GetReturn(t)
         /\ DestroyLock(t) => L!DestroyLock(t)
         /\ DestroyFree(t) => L!DestroyFree(t)
         /\ DestroyEnd(t) => L!DestroyEnd(t)
         /\ Call(t) => L!Call(t)
<1> USE DEF FutexTypeOK, Place, Away, At, L!At, Goto, L!Goto, Lock, L!Lock, Unlock, L!Unlock,
            listVars, L!listVars
<1>1. PutLock(t) => L!PutLock(t)
  BY DEF PutLock, L!PutLock
<1>2. PutAppend(t) => L!PutAppend(t)
  BY DEF PutAppend, L!PutAppend
<1>3. PutCount(t) => L!PutCount(t)
  BY DEF PutCount, L!PutCount
<1>4. GetLock(t) => L!GetLock(t)
  BY DEF GetLock, L!GetLock
<1>5. GetRemove(t) => L!GetRemove(t)
  BY DEF GetRemove, L!GetRemove, Shorten, L!Shorten
<1>6. GetFree(t) => L!GetFree(t)
  BY DEF GetFree, L!GetFree, Free, L!Free
<1>7. GetReturn(t) => L!GetReturn(t)
  BY DEF GetReturn, L!GetReturn
<1>8. DestroyLock(t) => L!DestroyLock(t)
  BY DEF DestroyLock, L!DestroyLock
<1>9. DestroyFree(t) => L!DestroyFree(t)
  BY DEF DestroyFree, L!DestroyFree, Free, L!Free
<1>10. DestroyEnd(t) => L!DestroyEnd(t)
  BY DEF DestroyEnd, L!DestroyEnd
<1>11. Call(t) => L!Call(t)
  <2> SUFFICES ASSUME Call(t) PROVE L!Call(t)
    OBVIOUS
  <2>1. L!Usable
    BY DEF Call, Usable, L!Usable
  <2>2. ASSUME NEW s \in Value, PutAlloc(t, s) PROVE L!PutAlloc(t, s)
    BY <2>2 DEF PutAlloc, L!PutAlloc
  <2>3. PutOutOfMemory(t) => L!PutOutOfMemory(t)
    BY DEF PutOutOfMemory, L!PutOutOfMemory
  <2>4. GetCall(t) => L!GetCall(t)
    BY DEF GetCall, L!GetCall
  <2>5. Quiescent(t) /\ DestroyCall(t) => L!Quiescent(t) /\ L!DestroyCall(t)
    BY DEF Quiescent, L!Quiescent, DestroyCall, L!DestroyCall
  <2> QED
    BY <2>1, <2>2, <2>3, <2>4, <2>5 DEF Call, L!Call
<1> QED
  BY <1>1, <1>2, <1>3, <1>4, <1>5, <1>6, <1>7, <1>8, <1>9, <1>10, <1>11

(* A broadcast of the futex queue is one that finds nobody asleep. *)
LEMMA BroadcastMaps ==
  ASSUME FutexTypeOK, NEW t \in Thread, BroadcastFutex(t)
  PROVE  L!PutWake(t)
<1>1. ASSUME NEW u \in Thread PROVE Place'[u] = IF u = t THEN "put_count" ELSE Place[u]
  BY DEF BroadcastFutex, FutexTypeOK, FutexWake, Place, Away, At, Goto
<1>2. L!At(t, "put_wake")
  BY DEF BroadcastFutex, Place, Away, At, L!At
<1>3. Place' = [u \in Thread |-> IF u = t THEN "put_count" ELSE IF u \in {} THEN "get_lock" ELSE Place[u]]
  BY <1>1 DEF Place
<1>4. UNCHANGED <<msg, sock, mutex, first, last, length, next, val, heap, order, spurious, exited>>
  BY DEF BroadcastFutex, listVars
<1> QED
  BY <1>2, <1>3, <1>4 DEF L!PutWake, L!Broadcast, L!listVars

(* queue_get unlocks the mutex on an empty list, and nothing else. *)
LEMMA GetUnlockKeeps ==
  ASSUME FutexTypeOK, L!IInv, NEW t \in Thread, GetUnlock(t)
  PROVE  L!IInv'
<1> USE NullAssumption DEF L!IInv
<1>1. /\ Place[t] = "get_test" /\ Place' = [Place EXCEPT ![t] = "get_lock"]
      /\ mutex' = NULL
      /\ UNCHANGED <<msg, sock, first, last, length, next, val, heap, order, spurious, exited>>
  BY DEF GetUnlock, FutexTypeOK, Place, Away, At, Goto, Unlock, listVars
<1> HIDE DEF Place
<1>2. L!TypeOK'
  BY <1>1 DEF L!TypeOK, L!DataTypeOK, L!Label
<1>3. L!MutexOK'
  BY <1>1 DEF L!MutexOK, L!Holding, L!TypeOK
<1>4. L!SleepersOK' /\ L!WakeOK'
  BY <1>1 DEF L!SleepersOK, L!WakeOK, L!TypeOK
<1>5. L!ListShape' /\ L!LengthAccounts'
  BY <1>1 DEF L!ListShape, L!LengthAccounts, L!Destroying, L!TypeOK
<1>6. L!HeapAccounts'
  BY <1>1 DEF L!HeapAccounts, L!Owns, L!OnList, L!TypeOK
<1>7. L!MessagesOK'
  BY <1>1 DEF L!MessagesOK, L!Owns, L!TypeOK
<1>8. L!DestroyOK'
  BY <1>1 DEF L!DestroyOK, L!TypeOK
<1> QED
  BY <1>2, <1>3, <1>4, <1>5, <1>6, <1>7, <1>8

(* A spurious return from the wait changes its count only. *)
LEMMA SpuriousKeeps ==
  ASSUME FutexTypeOK, L!IInv, NEW t \in Thread, SpuriousWakeup(t)
  PROVE  L!IInv'
<1>1. /\ Place' = Place /\ spurious' \in 0..MaxSpurious
      /\ UNCHANGED <<msg, sock, mutex, first, last, length, next, val, heap, order, exited>>
  <2>1. spurious' \in 0..MaxSpurious
    BY MaxSpuriousAssumption DEF SpuriousWakeup, FutexTypeOK, DataTypeOK
  <2> QED
    BY <2>1 DEF SpuriousWakeup, FutexTypeOK, Place, Away, At, Goto, listVars
<1> HIDE DEF Place
<1>2. L!TypeOK' /\ L!MutexOK' /\ L!SleepersOK' /\ L!WakeOK' /\ L!DestroyOK'
  BY <1>1 DEF L!IInv, L!TypeOK, L!DataTypeOK, L!MutexOK, L!SleepersOK, L!WakeOK, L!DestroyOK
<1>3. L!ListShape' /\ L!LengthAccounts'
  BY <1>1 DEF L!IInv, L!ListShape, L!LengthAccounts, L!Destroying
<1>4. L!HeapAccounts' /\ L!MessagesOK'
  BY <1>1 DEF L!IInv, L!HeapAccounts, L!MessagesOK, L!Owns, L!OnList
<1> QED
  BY <1>2, <1>3, <1>4 DEF L!IInv

(* The steps inside wait cannot be seen through Place. *)
LEMMA WaitKeeps ==
  ASSUME FutexTypeOK, L!IInv, NEW t \in Thread, WaitRead(t) \/ WaitSleep(t)
  PROVE  L!IInv'
<1>1. UNCHANGED <<Place, msg, sock, mutex, L!listVars, spurious>> /\ exited' \in BOOLEAN
  BY DEF WaitRead, WaitSleep, FutexTypeOK, DataTypeOK, Place, Away, At, Goto, listVars, L!listVars
<1> QED
  BY <1>1, L!StutterKeeps, NullAssumption, MaxSpuriousAssumption, ServerAssumption, SamePool

(* Every step keeps the invariant of the locked queue. *)
LEMMA StepLocked == FutexTypeOK /\ L!IInv /\ [FutexNext]_queueVars => L!IInv'
<1> SUFFICES ASSUME FutexTypeOK, L!IInv, [FutexNext]_queueVars PROVE L!IInv'
  OBVIOUS
<1> USE NullAssumption, MaxSpuriousAssumption, ServerAssumption, SamePool
<1>1. ASSUME NEW t \in Thread, L!Call(t) \/ L!Inside(t) \/ L!GetReturn(t) PROVE L!IInv'
  BY <1>1, L!StepInv DEF L!Next
<1>2. ASSUME NEW t \in Thread, Common(t) PROVE L!IInv'
  BY <1>1, <1>2, CommonMaps, SpuriousKeeps DEF Common, L!Inside
<1>3. ASSUME NEW t \in Thread, BroadcastFutex(t) PROVE L!IInv'
  BY <1>1, <1>3, BroadcastMaps DEF L!Inside
<1>4. CASE Exit
  BY <1>4, L!StutterKeeps DEF Exit, listVars, L!listVars, Place
<1>5. CASE UNCHANGED queueVars
  <2>1. exited' \in BOOLEAN
    BY <1>5 DEF queueVars, vars, FutexTypeOK, DataTypeOK
  <2> QED
    BY <1>5, <2>1, L!StutterKeeps DEF queueVars, vars, listVars, L!listVars, Place
<1> QED
  BY <1>2, <1>3, <1>4, <1>5, GetUnlockKeeps, WaitKeeps DEF FutexNext

-----------------------------------------------------------------------------
(* The invariant *)

(* What the types add to those of the locked queue. *)
PlacesOK ==
  /\ pc \in [Thread -> Label \cup {"wait_read", "wait_sleep"}]
  /\ sleepers \subseteq {t \in Thread : pc[t] = "get_wait"}
  /\ futex_addr = 0
  /\ old_val \in [Thread -> {0}]
  /\ missed \subseteq Thread

(* The rest is the locked queue's. *)
LEMMA Types == L!IInv /\ PlacesOK => FutexTypeOK
<1> SUFFICES ASSUME L!IInv, PlacesOK PROVE FutexTypeOK
  OBVIOUS
<1>1. DataTypeOK
  BY DEF L!IInv, L!TypeOK, L!DataTypeOK, DataTypeOK, PlacesOK
<1>2. mutex = NULL \/ pc[mutex] \in Holding
  BY DEF L!IInv, L!TypeOK, L!DataTypeOK, L!MutexOK, L!Holding, Holding, Place, Away
<1> QED
  BY <1>1, <1>2 DEF FutexTypeOK, PlacesOK

(* Only the steps inside wait and the broadcast move threads to and from
   their sleep. *)
LEMMA StepPlaces == FutexTypeOK /\ [FutexNext]_queueVars => PlacesOK'
<1> SUFFICES ASSUME FutexTypeOK, [FutexNext]_queueVars PROVE PlacesOK'
  OBVIOUS
<1> USE DEF FutexTypeOK, PlacesOK
<1>1. ASSUME NEW t \in Thread, NEW label \in Label, Goto(t, label), ~(pc[t] = "get_wait"),
             UNCHANGED <<sleepers, futexVars>>
      PROVE  PlacesOK'
  BY <1>1 DEF Goto, futexVars
<1>2. ASSUME UNCHANGED <<pc, sleepers, futexVars>> PROVE PlacesOK'
  BY <1>2 DEF futexVars
<1>3. ASSUME NEW t \in Thread, Common(t), UNCHANGED futexVars PROVE PlacesOK'
  <2>1. CASE SpuriousWakeup(t)
    BY <1>3, <2>1 DEF SpuriousWakeup, At, Goto, Label, futexVars
  <2>2. CASE Call(t)
    <3>1. ASSUME NEW s \in Value, PutAlloc(t, s) PROVE PlacesOK'
      BY <1>1, <1>3, <3>1 DEF PutAlloc, At, Label
    <3>2. CASE PutOutOfMemory(t)
      BY <1>2, <1>3, <3>2 DEF PutOutOfMemory
    <3>3. CASE GetCall(t)
      BY <1>1, <1>3, <3>3 DEF GetCall, At, Label
    <3>4. CASE DestroyCall(t)
      BY <1>1, <1>3, <3>4 DEF DestroyCall, At, Label
    <3> QED
      BY <2>2, <3>1, <3>2, <3>3, <3>4 DEF Call
  <2>3. CASE PutLock(t) \/ PutAppend(t) \/ PutCount(t)
    BY <1>1, <1>3, <2>3 DEF PutLock, PutAppend, PutCount, At, Label
  <2>4. CASE GetLock(t) \/ GetRemove(t) \/ GetFree(t) \/ GetReturn(t)
    BY <1>1, <1>3, <2>4 DEF GetLock, GetRemove, GetFree, GetReturn, At, Label
  <2>5. CASE DestroyLock(t) \/ DestroyEnd(t)
    BY <1>1, <1>3, <2>5 DEF DestroyLock, DestroyEnd, At, Label
  <2>6. CASE DestroyFree(t)
    BY <1>2, <1>3, <2>6 DEF DestroyFree
  <2> QED
    BY <1>3, <2>1, <2>2, <2>3, <2>4, <2>5, <2>6 DEF Common
<1>4. ASSUME NEW t \in Thread, GetUnlock(t) \/ WaitRead(t) PROVE PlacesOK'
  BY <1>4 DEF GetUnlock, WaitRead, At, Goto, Label
<1>5. ASSUME NEW t \in Thread, WaitSleep(t) PROVE PlacesOK'
  BY <1>5 DEF WaitSleep, At, Goto, Label, futexVars
<1>6. ASSUME NEW t \in Thread, BroadcastFutex(t) PROVE PlacesOK'
  BY <1>6 DEF BroadcastFutex, FutexWake, InGap, At, Goto, Label
<1>7. CASE Exit /\ UNCHANGED futexVars
  BY <1>2, <1>7 DEF Exit
<1>8. CASE UNCHANGED queueVars
  BY <1>2, <1>8 DEF queueVars, vars
<1> QED
  BY <1>3, <1>4, <1>5, <1>6, <1>7, <1>8 DEF FutexNext

(* At most one thread is past its lock. *)
LEMMA OneHolder ==
  ASSUME FutexTypeOK, L!IInv, NEW t \in Thread, pc[t] \in Holding
  PROVE  \A u \in Thread \ {t} : pc[u] \notin Holding
<1>1. \A u \in Thread : pc[u] \in Holding => mutex = u
  BY DEF L!IInv, L!MutexOK, L!Holding, Holding, FutexTypeOK, Place, Away
<1> QED
  BY <1>1

(* The list as the wake-ups see it. *)
LEMMA LengthOfList ==
  ASSUME FutexTypeOK, L!IInv, NEW t \in Thread, pc[t] \in Holding, pc[t] # "destroy_loop"
  PROVE  /\ pc[t] = "put_append" /\ order = <<>> => length = 0
         /\ first = NULL => order = <<>>
<1>1. \A u \in Thread \ {t} : pc[u] \notin Holding
  BY OneHolder
<1>2. ~L!Destroying
  BY <1>1 DEF L!Destroying, FutexTypeOK, Place, Away, Holding
<1>3. pc[t] = "put_append" => length = Len(order)
  BY <1>1, <1>2 DEF L!IInv, L!LengthAccounts, FutexTypeOK, Place, Away, Holding
<1>4. first = NULL => order = <<>>
  BY NullAssumption DEF L!IInv, L!ListShape, L!TypeOK, L!DataTypeOK
<1> QED
  BY <1>3, <1>4

(* No step leaves a waiting thread beside a message without having passed it
   over. *)
LEMMA StepMissed == FutexInv /\ [FutexNext]_queueVars => WaitingWasMissed'
<1> SUFFICES ASSUME FutexTypeOK, L!IInv, WaitingWasMissed, [FutexNext]_queueVars
             PROVE  WaitingWasMissed'
  BY DEF FutexInv
<1> USE DEF WaitingWasMissed, Waiting, InGap
<1>1. ASSUME NEW t \in Thread, NEW label \in Label, Goto(t, label), pc[t] # "put_wake", 
             label # "put_wake", UNCHANGED <<length, order, missed>>, sleepers' \subseteq sleepers
      PROVE  WaitingWasMissed'
  BY <1>1 DEF Goto, Label, BroadcastIsDue, FutexTypeOK
<1>2. ASSUME UNCHANGED <<pc, length, order, sleepers, missed>> PROVE WaitingWasMissed'
  BY <1>2 DEF BroadcastIsDue
<1>3. ASSUME NEW t \in Thread, PutAppend(t), UNCHANGED missed PROVE WaitingWasMissed'
  <2>1. order = <<>> => length = 0
    BY <1>3, LengthOfList DEF PutAppend, At, Holding
  <2>2. pc'[t] = "put_wake" /\ UNCHANGED <<length, sleepers>>
    BY <1>3 DEF PutAppend, Goto, At, FutexTypeOK
  <2>3. order # <<>> => ~BroadcastIsDue
    BY <1>3, OneHolder DEF PutAppend, At, Holding, BroadcastIsDue
  <2>4. \A u \in Thread : InGap(u)' => InGap(u)
    BY <1>3 DEF PutAppend, Goto, At, FutexTypeOK
  <2> QED
    BY <1>3, <2>1, <2>2, <2>3, <2>4 DEF BroadcastIsDue
<1>4. ASSUME NEW t \in Thread, BroadcastFutex(t) PROVE WaitingWasMissed'
  <2>1. \A u \in Thread : InGap(u)' => InGap(u)
    BY <1>4 DEF BroadcastFutex, Goto, At, FutexTypeOK
  <2>2. CASE length = 0
    BY <1>4, <2>1, <2>2 DEF BroadcastFutex, WasEmpty
  <2>3. CASE length # 0
    BY <1>4, <2>1, <2>3 DEF BroadcastFutex, WasEmpty, BroadcastIsDue, listVars
  <2> QED
    BY <2>2, <2>3
<1>5. ASSUME NEW t \in Thread, PutCount(t), UNCHANGED missed PROVE WaitingWasMissed'
  <2>1. ~BroadcastIsDue
    BY <1>5, OneHolder DEF PutCount, At, Holding, BroadcastIsDue
  <2>2. \A u \in Thread : InGap(u)' => InGap(u)
    BY <1>5 DEF PutCount, Goto, At, FutexTypeOK
  <2> QED
    BY <1>5, <2>1, <2>2 DEF PutCount
<1>6. ASSUME NEW t \in Thread, GetRemove(t), UNCHANGED missed PROVE WaitingWasMissed'
  <2>1. ~BroadcastIsDue
    BY <1>6, OneHolder DEF GetRemove, At, Holding, BroadcastIsDue
  <2>2. \A u \in Thread : InGap(u)' => InGap(u)
    BY <1>6 DEF GetRemove, Goto, At, FutexTypeOK
  <2>3. order # <<>>
    BY <1>6, NullAssumption DEF GetRemove, L!IInv, L!ListShape
  <2> QED
    BY <1>6, <2>1, <2>2, <2>3 DEF GetRemove
<1>7. ASSUME NEW t \in Thread, DestroyFree(t) \/ DestroyEnd(t), UNCHANGED missed PROVE WaitingWasMissed'
  <2>1. \A u \in Thread \ {t} : pc[u] = "idle"
    BY <1>7 DEF DestroyFree, DestroyEnd, At, L!IInv, L!DestroyOK, FutexTypeOK, Place, Away
  <2> QED
    BY <1>7, <2>1 DEF DestroyFree, DestroyEnd, At, Goto, FutexTypeOK
<1>8. ASSUME NEW t \in Thread, GetUnlock(t) PROVE WaitingWasMissed'
  <2>1. order = <<>>
    BY <1>8, LengthOfList DEF GetUnlock, At, Holding
  <2> QED
    BY <1>8, <2>1 DEF GetUnlock, listVars
<1>9. ASSUME NEW t \in Thread, WaitRead(t) \/ WaitSleep(t) PROVE WaitingWasMissed'
  <2>1. pc'[t] # "put_wake" /\ \A u \in Thread \ {t} : pc'[u] = pc[u]
    BY <1>9 DEF WaitRead, WaitSleep, At, Goto, FutexTypeOK
  <2>2. Waiting(t) /\ pc[t] # "put_wake" /\ sleepers' \subseteq sleepers \cup {t}
    BY <1>9 DEF WaitRead, WaitSleep, At
  <2> QED
    BY <1>9, <2>1, <2>2 DEF WaitRead, WaitSleep, BroadcastIsDue, listVars, futexVars
<1>10. ASSUME NEW t \in Thread, Call(t), UNCHANGED missed PROVE WaitingWasMissed'
  <2>1. ASSUME NEW s \in Value, PutAlloc(t, s) PROVE WaitingWasMissed'
    BY <1>1, <1>10, <2>1 DEF PutAlloc, At, Label
  <2>2. CASE PutOutOfMemory(t)
    BY <1>2, <1>10, <2>2 DEF PutOutOfMemory, listVars
  <2>3. CASE GetCall(t)
    BY <1>1, <1>10, <2>3 DEF GetCall, At, Label, listVars
  <2>4. CASE DestroyCall(t)
    BY <1>1, <1>10, <2>4 DEF DestroyCall, At, Label, listVars
  <2> QED
    BY <1>10, <2>1, <2>2, <2>3, <2>4 DEF Call
<1>11. ASSUME NEW t \in Thread, PutLock(t) \/ GetLock(t) \/ GetFree(t) \/ GetReturn(t) \/ DestroyLock(t)
                                 \/ SpuriousWakeup(t),
              UNCHANGED missed
       PROVE  WaitingWasMissed'
  BY <1>1, <1>11 DEF PutLock, GetLock, GetFree, GetReturn, DestroyLock, SpuriousWakeup, At, Label, listVars
<1>12. ASSUME NEW t \in Thread, Common(t), UNCHANGED futexVars PROVE WaitingWasMissed'
  BY <1>3, <1>5, <1>6, <1>7, <1>10, <1>11, <1>12 DEF Common, futexVars
<1>13. CASE Exit /\ UNCHANGED futexVars
  BY <1>2, <1>13 DEF Exit, listVars, futexVars
<1>14. CASE UNCHANGED queueVars
  BY <1>2, <1>14 DEF queueVars, vars, listVars, futexVars
<1> QED
  BY <1>4, <1>8, <1>9, <1>12, <1>13, <1>14 DEF FutexNext

(* The initial state. *)
LEMMA InitFutexInv == FutexInit => FutexInv
<1> SUFFICES ASSUME FutexInit PROVE FutexInv
  OBVIOUS
<1>1. L!Init
  BY DEF FutexInit, Init, L!Init, Place, Away
<1>2. L!IInv
  BY <1>1, L!InitInv, NullAssumption, MaxSpuriousAssumption, ServerAssumption, SamePool
<1>3. PlacesOK /\ WaitingWasMissed
  BY DEF FutexInit, Init, PlacesOK, Label, WaitingWasMissed
<1> QED
  BY <1>2, <1>3, Types DEF FutexInv

(* Every step keeps the invariant. *)
LEMMA StepFutexInv == FutexInv /\ [FutexNext]_queueVars => FutexInv'
<1> SUFFICES ASSUME FutexInv, [FutexNext]_queueVars PROVE FutexInv'
  OBVIOUS
<1>1. L!IInv' /\ PlacesOK' /\ WaitingWasMissed'
  BY StepLocked, StepPlaces, StepMissed DEF FutexInv
<1>2. (L!IInv /\ PlacesOK => FutexTypeOK)'
  BY Types, PTL
<1> QED
  BY <1>1, <1>2 DEF FutexInv

(* The invariant holds throughout. *)
LEMMA FutexInvariant == FutexSpec => []FutexInv
  BY InitFutexInv, StepFutexInv, PTL DEF FutexSpec

(* The types of the futex queue; in particular the futex word never changes. *)
THEOREM FutexTypeCorrect == FutexSpec => []FutexTypeOK
<1>1. FutexInv => FutexTypeOK
  BY DEF FutexInv
<1> QED
  BY <1>1, FutexInvariant, PTL

(* No message of the futex queue is leaked, freed twice or used after its free. *)
THEOREM FutexHeapCorrect == FutexSpec => []HeapAccounts
<1>1. FutexInv => HeapAccounts
  BY DEF FutexInv, FutexTypeOK, L!IInv, L!HeapAccounts, HeapAccounts, L!Owns, Owns, L!OnList, OnList,
         Place, Away
<1> QED
  BY <1>1, FutexInvariant, PTL

(* A thread that sleeps beside a message, with no broadcast on its way, was
   passed over by a broadcast. *)
THEOREM StrandedWasMissedCorrect == FutexSpec => []StrandedWasMissed
<1>1. FutexInv => StrandedWasMissed
  BY DEF FutexInv, FutexTypeOK, DataTypeOK, WaitingWasMissed, BroadcastIsDue, Waiting, StrandedWasMissed
<1> QED
  BY <1>1, FutexInvariant, PTL

-----------------------------------------------------------------------------
(* The futex queue implements FifoQueue *)

(* The values in hand are the same through Place. *)
LEMMA SameHands == \A t \in Thread : L!Taken(t) = Taken(t)
  BY DEF L!Taken, Taken, Place, Away

(* Hence the two abstract queues are one. *)
LEMMA SameFifo ==
  ASSUME [L!Fifo!Next]_(L!Fifo!vars)
  PROVE  [Fifo!Next]_(Fifo!vars)
<1>1. [t \in Thread |-> L!Taken(t)] = [t \in Thread |-> Taken(t)]
  BY SameHands
<1>2. ([t \in Thread |-> L!Taken(t)] = [t \in Thread |-> Taken(t)])'
  BY DEF L!Taken, Taken, Place, Away
<1>3. L!Fifo!vars = Fifo!vars /\ L!Fifo!vars' = Fifo!vars'
  BY <1>1, <1>2 DEF L!Fifo!vars, Fifo!vars
<1>4. \A v \in Value : L!Fifo!Put(v) => Fifo!Put(v)
  BY <1>1, <1>2 DEF L!Fifo!Put, Fifo!Put
<1>5. \A t \in Thread : L!Fifo!Get(t) => Fifo!Get(t)
  BY <1>1, <1>2 DEF L!Fifo!Get, Fifo!Get
<1>6. \A t \in Thread : L!Fifo!Return(t) => Fifo!Return(t)
  BY <1>1, <1>2 DEF L!Fifo!Return, Fifo!Return
<1>7. L!Fifo!Discard => Fifo!Discard
  BY <1>1, <1>2 DEF L!Fifo!Discard, Fifo!Discard
<1> QED
  BY <1>3, <1>4, <1>5, <1>6, <1>7 DEF L!Fifo!Next, Fifo!Next

(* Every step of the futex queue is a step, or a stutter, of the abstract
   queue. *)
LEMMA StepFutexRefines == FutexInv /\ [FutexNext]_queueVars => [Fifo!Next]_(Fifo!vars)
<1> SUFFICES ASSUME FutexTypeOK, L!IInv, [FutexNext]_queueVars PROVE [Fifo!Next]_(Fifo!vars)
  BY DEF FutexInv
<1> USE NullAssumption, MaxSpuriousAssumption, ServerAssumption, SamePool
<1>1. ASSUME NEW t \in Thread, L!Call(t) \/ L!Inside(t) \/ L!GetReturn(t)
      PROVE  [Fifo!Next]_(Fifo!vars)
  BY <1>1, L!StepRefines, SameFifo DEF L!Next
<1>2. ASSUME NEW t \in Thread, BroadcastFutex(t) PROVE [Fifo!Next]_(Fifo!vars)
  BY <1>1, <1>2, BroadcastMaps DEF L!Inside
<1>3. ASSUME UNCHANGED <<val, order, sock, msg>>,
             \A u \in Thread : Place'[u] = Place[u] \/ (Place[u] = "get_test" /\ Place'[u] = "get_lock")
      PROVE  [Fifo!Next]_(Fifo!vars)
  BY <1>3, L!MoveStutters, SameFifo DEF L!NoValue
<1>4. ASSUME NEW t \in Thread, GetUnlock(t) \/ WaitRead(t) \/ WaitSleep(t) \/ SpuriousWakeup(t)
      PROVE  [Fifo!Next]_(Fifo!vars)
  <2>1. \A u \in Thread : Place'[u] = Place[u] \/ (Place[u] = "get_test" /\ Place'[u] = "get_lock")
    BY <1>4 DEF GetUnlock, WaitRead, WaitSleep, SpuriousWakeup, At, Goto, Place, Away, FutexTypeOK
  <2> QED
    BY <1>3, <1>4, <2>1 DEF GetUnlock, WaitRead, WaitSleep, SpuriousWakeup, listVars
<1>5. ASSUME NEW t \in Thread, Common(t) PROVE [Fifo!Next]_(Fifo!vars)
  BY <1>1, <1>4, <1>5, CommonMaps DEF Common, L!Inside
<1>6. CASE Exit
  BY <1>3, <1>6 DEF Exit, listVars, Place
<1>7. CASE UNCHANGED queueVars
  BY <1>3, <1>7 DEF queueVars, vars, listVars, Place
<1> QED
  BY <1>2, <1>4, <1>5, <1>6, <1>7 DEF FutexNext

(* The futex queue implements the abstract FIFO queue, whatever wake-ups it
   loses. *)
THEOREM FutexFifoCorrect == FutexSpec => FutexFifoRefinement
<1>1. FutexInit => Fifo!Init
  <2> SUFFICES ASSUME FutexInit PROVE Fifo!Init
    OBVIOUS
  <2>1. [i \in 1..Len(order) |-> val[order[i]]] = <<>>
    BY DEF FutexInit, Init
  <2>2. [t \in Thread |-> Taken(t)] = [t \in Thread |-> NULL]
    BY DEF FutexInit, Init, Taken
  <2> QED
    BY <2>1, <2>2 DEF Fifo!Init
<1>2. FutexSpec => Fifo!Init /\ [][Fifo!Next]_(Fifo!vars)
  BY <1>1, StepFutexRefines, FutexInvariant, PTL DEF FutexSpec
<1> QED
  BY <1>2 DEF FutexFifoRefinement, FifoRefinement, Fifo!Spec

-----------------------------------------------------------------------------
(* The handler *)

Item    == {"status"} \X {200, 400, 403, 404, 501} \cup {"block"} \X Nat
Request == [at   : {"line", "headers", "stat", "fopen", "file", "close"},
            out  : Seq(Item),
            due  : {200, 400, 501},
            seen : SUBSET Http!Kind]

(* What may have been sent, with the status that came first. *)
Answered(r) ==
  /\ r.out[1][1] = "status"
  /\ \A i \in 2 .. Len(r.out) : r.out[i] = <<"block", i - 1>> /\ r.out[1][2] = 200
  /\ IF r.due # 200 THEN r.out[1][2] = r.due
     ELSE \/ r.out[1][2] = 403 /\ "dir" \in r.seen
          \/ r.out[1][2] = 404 /\ "none" \in r.seen
          \/ r.out[1][2] = 200 /\ ("file" \in r.seen \/ r.seen = {"none", "dir"})

(* A request before its answer; what stat saw is kept until fopen, and blocks
   follow the answer for a file. *)
RequestOK(r) ==
  /\ r.at \in {"line", "headers", "stat", "fopen"} => r.out = <<>> /\ r.due = 200
  /\ r.at = "fopen" => r.seen \in {{"file"}, {"none"}}
  /\ r.at = "file" => r.out # <<>> /\ r.out[1] = <<"status", 200>> /\ r.due = 200 /\ "file" \in r.seen
  /\ r.out # <<>> => Answered(r)

HandlerInv == rq \in [Worker -> Request] /\ \A w \in Worker : RequestOK(rq[w])

-----------------------------------------------------------------------------
(* The first test that fails gives the status the faults deserve. *)
LEMMA FirstFault ==
  ASSUME NEW faults \in SUBSET Http!Fault, faults # {}
  PROVE  Http!LineStatus(faults) = Http!Due(faults) /\ Http!Due(faults) \in {400, 501}
<1> DEFINE failed == {i \in DOMAIN Http!Tests : Http!Tests[i][1] \in faults}
           F(i) == i \in failed /\ \A j \in failed : i <= j
<1>1. /\ DOMAIN Http!Tests = 1..5
      /\ Http!Tests[1] = <<"words", 501>> /\ Http!Tests[2] = <<"method", 501>> /\ Http!Tests[3] = <<"version", 501>>
      /\ Http!Tests[4] = <<"no_slash", 400>> /\ Http!Tests[5] = <<"parent", 400>>
  BY DEF Http!Tests
<1>2. /\ 1 \in failed <=> "words" \in faults
      /\ 2 \in failed <=> "method" \in faults
      /\ 3 \in failed <=> "version" \in faults
      /\ 4 \in failed <=> "no_slash" \in faults
      /\ 5 \in failed <=> "parent" \in faults
      /\ failed \subseteq 1..5
  BY <1>1
<1>3. failed # {}
  BY <1>2 DEF Http!Fault
<1> HIDE DEF failed
<1>4. \E i \in 1..5 : F(i)
  <2>1. CASE 1 \in failed
    BY <1>2, <2>1
  <2>2. CASE 2 \in failed /\ 1 \notin failed
    BY <1>2, <2>2
  <2>3. CASE 3 \in failed /\ 1 \notin failed /\ 2 \notin failed
    BY <1>2, <2>3
  <2>4. CASE 4 \in failed /\ 1 \notin failed /\ 2 \notin failed /\ 3 \notin failed
    BY <1>2, <2>4
  <2>5. CASE 5 \in failed /\ \A i \in 1..4 : i \notin failed
    BY <1>2, <2>5
  <2>6. \E i \in 1..5 : i \in failed
    BY <1>2, <1>3
  <2> QED
    BY <2>1, <2>2, <2>3, <2>4, <2>5, <2>6
<1>5. PICK k \in 1..5 : F(k)
  BY <1>4
<1>6. \A i : F(i) => i = k
  BY <1>2, <1>5
<1>7. (CHOOSE i \in failed : \A j \in failed : i <= j) = k
  BY <1>5, <1>6
<1>8. Http!LineStatus(faults) = Http!Tests[k][2]
  BY <1>7 DEF Http!LineStatus, failed
<1>9. CASE k \in {1, 2, 3}
  <2>1. Http!Tests[k][2] = 501
    BY <1>1, <1>9
  <2>2. faults \cap {"words", "method", "version"} # {}
    BY <1>2, <1>5, <1>9
  <2> QED
    BY <1>8, <2>1, <2>2 DEF Http!Due
<1>10. CASE k \in {4, 5}
  <2>1. faults \cap {"words", "method", "version"} = {}
    BY <1>2, <1>5, <1>10
  <2>2. faults \cap {"no_slash", "parent"} # {}
    BY <1>2, <1>5, <1>10
  <2> QED
    BY <1>1, <1>8, <1>10, <2>1, <2>2 DEF Http!Due
<1> QED
  BY <1>5, <1>9, <1>10

(* One worker's step replaces its request by one that is in order too. *)
LEMMA OneRequest ==
  ASSUME HandlerInv, NEW w \in Worker, NEW r \in Request, RequestOK(r), rq' = [rq EXCEPT ![w] = r]
  PROVE  HandlerInv'
  BY DEF HandlerInv

(* Sending the status, as the first thing. *)
LEMMA StatusSent ==
  ASSUME NEW r \in Request, r.out = <<>>, NEW status \in {200, 400, 403, 404, 501},
         NEW to \in {"file", "close"}
  PROVE  LET s == Http!Sent(r, <<"status", status>>, to)
         IN  s \in Request /\ s.out = << <<"status", status>> >> /\ s.at = to
             /\ s.due = r.due /\ s.seen = r.seen
<1> DEFINE code == <<"status", status>>
<1>1. Append(r.out, code) = <<code>> /\ <<code>> \in Seq(Item)
  BY DEF Item
<1>2. Http!Sent(r, code, to) = [r EXCEPT !.out = Append(r.out, code), !.at = to]
  BY DEF Http!Sent
<1> HIDE DEF code
<1>3. Http!Sent(r, code, to) = [r EXCEPT !.out = <<code>>, !.at = to]
  BY <1>1, <1>2
<1> DEFINE out == <<code>>
           s   == [r EXCEPT !.out = out, !.at = to]
<1>4. out \in Seq(Item)
  BY <1>1
<1> HIDE DEF out
<1>5. s \in Request
  BY <1>4 DEF Request
<1>6. s.out = out /\ s.at = to /\ s.due = r.due /\ s.seen = r.seen
  BY DEF Request
<1>7. Http!Sent(r, code, to) = s
  BY <1>3 DEF out
<1> HIDE DEF s
<1> QED
  BY <1>5, <1>6, <1>7 DEF code, out

(* A request line is read. *)
LEMMA ReadLineKeeps ==
  ASSUME HandlerInv, NEW w \in Worker, Http!ReadLine(w)
  PROVE  HandlerInv'
<1>1. PICK faults \in SUBSET Http!Fault :
        rq' = [rq EXCEPT ![w] =
          IF faults = {} THEN [rq[w] EXCEPT !.at = "headers"]
          ELSE [Http!Sent(rq[w], <<"status", Http!LineStatus(faults)>>, "close") EXCEPT !.due = Http!Due(faults)]]
  BY DEF Http!ReadLine
<1>2. rq[w] \in Request /\ rq[w].out = <<>> /\ rq[w].due = 200 /\ rq[w].at = "line"
  BY DEF Http!ReadLine, HandlerInv, RequestOK
<1>3. CASE faults = {}
  <2> DEFINE r == [rq[w] EXCEPT !.at = "headers"]
  <2>1. r \in Request /\ RequestOK(r)
    BY <1>2 DEF Request, RequestOK
  <2>2. rq' = [rq EXCEPT ![w] = r]
    BY <1>1, <1>3
  <2> HIDE DEF r
  <2> QED
    BY <2>1, <2>2, OneRequest
<1>4. CASE faults # {}
  <2>1. Http!LineStatus(faults) = Http!Due(faults) /\ Http!Due(faults) \in {400, 501}
    BY <1>4, FirstFault
  <2> DEFINE s == Http!Sent(rq[w], <<"status", Http!LineStatus(faults)>>, "close")
             r == [s EXCEPT !.due = Http!Due(faults)]
  <2>2. s \in Request /\ s.out = << <<"status", Http!Due(faults)>> >> /\ s.at = "close"
    BY <1>2, <2>1, StatusSent
  <2>3. rq' = [rq EXCEPT ![w] = r]
    BY <1>1, <1>4
  <2> HIDE DEF s
  <2>4. r \in Request /\ r.out = << <<"status", Http!Due(faults)>> >> /\ r.at = "close" /\ r.due = Http!Due(faults)
    BY <2>1, <2>2 DEF Request
  <2> HIDE DEF r
  <2>5. RequestOK(r)
    BY <2>1, <2>4 DEF RequestOK, Answered
  <2> QED
    BY <2>3, <2>4, <2>5, OneRequest
<1> QED
  BY <1>3, <1>4

(* stat looks at the path. *)
LEMMA StatKeeps ==
  ASSUME HandlerInv, NEW w \in Worker, Http!Stat(w)
  PROVE  HandlerInv'
<1> DEFINE looked(kind) == [rq[w] EXCEPT !.seen = {kind}]
<1>1. PICK kind \in Http!Kind :
        rq' = [rq EXCEPT ![w] = IF kind = "dir" THEN Http!Sent(looked(kind), <<"status", 403>>, "close")
                                ELSE [looked(kind) EXCEPT !.at = "fopen"]]
  BY DEF Http!Stat
<1>2. rq[w] \in Request /\ rq[w].out = <<>> /\ rq[w].due = 200
  BY DEF Http!Stat, HandlerInv, RequestOK
<1>3. looked(kind) \in Request /\ looked(kind).out = <<>> /\ looked(kind).due = 200
      /\ looked(kind).seen = {kind}
  BY <1>2 DEF Request, Http!Kind
<1> HIDE DEF looked
<1>4. CASE kind = "dir"
  <2> DEFINE r == Http!Sent(looked(kind), <<"status", 403>>, "close")
  <2>1. r \in Request /\ r.out = << <<"status", 403>> >> /\ r.at = "close" /\ r.due = 200 /\ r.seen = {"dir"}
    BY <1>3, <1>4, StatusSent
  <2>2. rq' = [rq EXCEPT ![w] = r]
    BY <1>1, <1>4
  <2> HIDE DEF r
  <2>3. RequestOK(r)
    BY <2>1 DEF RequestOK, Answered
  <2> QED
    BY <2>1, <2>2, <2>3, OneRequest
<1>5. CASE kind # "dir"
  <2> DEFINE r == [looked(kind) EXCEPT !.at = "fopen"]
  <2>1. r \in Request /\ r.out = <<>> /\ r.at = "fopen" /\ r.due = 200 /\ r.seen = {kind}
    BY <1>3 DEF Request
  <2>2. kind \in {"file", "none"}
    BY <1>5 DEF Http!Kind
  <2>3. rq' = [rq EXCEPT ![w] = r]
    BY <1>1, <1>5
  <2> HIDE DEF r
  <2>4. RequestOK(r)
    BY <2>1, <2>2 DEF RequestOK
  <2> QED
    BY <2>1, <2>3, <2>4, OneRequest
<1> QED
  BY <1>4, <1>5

(* fopen looks again, and may find something else. *)
LEMMA FopenKeeps ==
  ASSUME HandlerInv, NEW w \in Worker, Http!Fopen(w)
  PROVE  HandlerInv'
<1> DEFINE looked(kind) == [rq[w] EXCEPT !.seen = rq[w].seen \cup {kind}]
<1>1. PICK kind \in Http!Kind :
        /\ kind = "none" => rq' = [rq EXCEPT ![w] = Http!Sent(looked(kind), <<"status", 404>>, "close")]
        /\ kind = "dir"  => rq' = [rq EXCEPT ![w] = Http!Sent(looked(kind), <<"status", 200>>, "close")]
        /\ kind = "file" => rq' = [rq EXCEPT ![w] = Http!Sent(looked(kind), <<"status", 200>>, "file")]
  BY DEF Http!Fopen
<1>2. /\ rq[w] \in Request /\ rq[w].out = <<>> /\ rq[w].due = 200
      /\ rq[w].seen \in {{"file"}, {"none"}}
  BY DEF Http!Fopen, HandlerInv, RequestOK
<1>3. looked(kind) \in Request /\ looked(kind).out = <<>> /\ looked(kind).due = 200
      /\ looked(kind).seen = rq[w].seen \cup {kind}
  BY <1>2 DEF Request, Http!Kind
<1> HIDE DEF looked
<1>4. ASSUME NEW status \in {200, 404}, NEW to \in {"file", "close"},
             rq' = [rq EXCEPT ![w] = Http!Sent(looked(kind), <<"status", status>>, to)],
             status = 404 => kind = "none" /\ to = "close",
             status = 200 => kind \in {"dir", "file"} /\ (to = "file" <=> kind = "file")
      PROVE  HandlerInv'
  <2> DEFINE r == Http!Sent(looked(kind), <<"status", status>>, to)
  <2>1. /\ r \in Request /\ r.out = << <<"status", status>> >> /\ r.at = to /\ r.due = 200
        /\ r.seen = rq[w].seen \cup {kind}
    BY <1>3, StatusSent
  <2>5. rq' = [rq EXCEPT ![w] = r]
    BY <1>4
  <2> HIDE DEF r
  <2>2. /\ status = 404 => "none" \in r.seen
        /\ status = 200 => "file" \in r.seen \/ r.seen = {"none", "dir"}
        /\ to = "file" => "file" \in r.seen /\ status = 200
    BY <1>2, <1>4, <2>1
  <2>3. RequestOK(r)
    BY <2>1, <2>2 DEF RequestOK, Answered
  <2> QED
    BY <2>1, <2>3, <2>5, OneRequest
<1>5. CASE kind = "none"
  BY <1>1, <1>4, <1>5
<1>6. CASE kind = "dir"
  BY <1>1, <1>4, <1>6
<1>7. CASE kind = "file"
  BY <1>1, <1>4, <1>7
<1> QED
  BY <1>5, <1>6, <1>7 DEF Http!Kind

(* A block follows the status, or the block before it. *)
LEMMA SendBlockKeeps ==
  ASSUME HandlerInv, NEW w \in Worker, Http!SendBlock(w)
  PROVE  HandlerInv'
<1> DEFINE q == rq[w]
           r == Http!Sent(q, <<"block", Len(q.out)>>, "file")
<1>1. /\ q \in Request /\ q.out # <<>> /\ q.out[1] = <<"status", 200>> /\ q.due = 200
      /\ "file" \in q.seen /\ Answered(q)
  BY DEF Http!SendBlock, HandlerInv, RequestOK
<1>2. q.out \in Seq(Item) /\ Len(q.out) \in Nat \ {0}
  BY <1>1 DEF Request
<1>3. <<"block", Len(q.out)>> \in Item
  BY <1>2 DEF Item
<1>4. Append(q.out, <<"block", Len(q.out)>>) \in Seq(Item)
  BY <1>2, <1>3
<1>5. /\ r \in Request /\ r.out = Append(q.out, <<"block", Len(q.out)>>) /\ r.at = "file"
      /\ r.due = q.due /\ r.seen = q.seen
  BY <1>1, <1>4 DEF Http!Sent, Request
<1>6. rq' = [rq EXCEPT ![w] = r]
  BY DEF Http!SendBlock
<1> HIDE DEF q, r
<1>7. r.out[1] = <<"status", 200>> /\ r.out # <<>>
  BY <1>1, <1>2, <1>5
<1>8. ASSUME NEW i \in 2 .. Len(r.out) PROVE r.out[i] = <<"block", i - 1>>
  <2>1. Len(r.out) = Len(q.out) + 1
    BY <1>2, <1>5
  <2>2. CASE i = Len(r.out)
    BY <1>2, <1>5, <2>1, <2>2
  <2>3. CASE i # Len(r.out)
    <3>1. i \in 2 .. Len(q.out)
      BY <1>2, <2>1, <2>3
    <3>2. r.out[i] = q.out[i]
      BY <1>2, <1>5, <3>1
    <3> QED
      BY <1>1, <3>1, <3>2 DEF Answered
  <2> QED
    BY <2>2, <2>3
<1>9. RequestOK(r)
  BY <1>1, <1>5, <1>7, <1>8 DEF RequestOK, Answered
<1> QED
  BY <1>5, <1>6, <1>9, OneRequest

(* The other steps only move, or begin the next connection. *)
LEMMA MoveKeeps ==
  ASSUME HandlerInv, NEW w \in Worker, Http!EndOfHeaders(w) \/ Http!EndOfFile(w) \/ Http!ReadFails(w) \/ Http!Close(w)
  PROVE  HandlerInv'
<1>1. rq[w] \in Request /\ RequestOK(rq[w])
  BY DEF HandlerInv
<1>2. ASSUME NEW to \in {"stat", "close"}, rq' = [rq EXCEPT ![w].at = to], 
             to = "stat" => rq[w].at = "headers"
      PROVE  HandlerInv'
  <2> DEFINE r == [rq[w] EXCEPT !.at = to]
  <2>1. r \in Request /\ r.at = to /\ r.out = rq[w].out /\ r.due = rq[w].due /\ r.seen = rq[w].seen
    BY <1>1 DEF Request
  <2>2. rq' = [rq EXCEPT ![w] = r]
    BY <1>2
  <2> HIDE DEF r
  <2>3. RequestOK(r)
    BY <1>1, <1>2, <2>1 DEF RequestOK, Answered
  <2> QED
    BY <2>1, <2>2, <2>3, OneRequest
<1>3. CASE Http!EndOfHeaders(w)
  BY <1>2, <1>3 DEF Http!EndOfHeaders, Http!Move
<1>4. CASE Http!EndOfFile(w)
  BY <1>2, <1>4 DEF Http!EndOfFile, Http!Move
<1>5. CASE Http!ReadFails(w)
  BY <1>2, <1>5 DEF Http!ReadFails
<1>6. CASE Http!Close(w)
  <2>1. Http!Begin \in Request /\ RequestOK(Http!Begin)
    BY DEF Http!Begin, Request, RequestOK
  <2> QED
    BY <1>6, <2>1, OneRequest DEF Http!Close
<1> QED
  BY <1>3, <1>4, <1>5, <1>6

(* Every step keeps the requests in order. *)
LEMMA StepHandlerInv == HandlerInv /\ [Http!HandlerNext]_rq => HandlerInv'
<1> SUFFICES ASSUME HandlerInv, [Http!HandlerNext]_rq PROVE HandlerInv'
  OBVIOUS
<1>1. CASE Http!HandlerNext
  BY <1>1, ReadLineKeeps, StatKeeps, FopenKeeps, SendBlockKeeps, MoveKeeps DEF Http!HandlerNext, Http!HandlerStep
<1>2. CASE UNCHANGED rq
  BY <1>2 DEF HandlerInv
<1> QED
  BY <1>1, <1>2

(* The first request of each worker is in order. *)
LEMMA InitHandlerInv == Http!HandlerInit => HandlerInv
<1>1. Http!Begin \in Request /\ RequestOK(Http!Begin)
  BY DEF Http!Begin, Request, RequestOK
<1> QED
  BY <1>1 DEF Http!HandlerInit, HandlerInv

(* The properties follow from the invariant. *)
LEMMA InvAnswers == HandlerInv => Http!HandlerTypeOK /\ Http!AnswerIsDue
<1>1. HandlerInv => Http!HandlerTypeOK
  BY DEF HandlerInv, Http!HandlerTypeOK, Request, Item
<1>2. HandlerInv => Http!AnswerIsDue
  BY DEF HandlerInv, Http!AnswerIsDue, RequestOK, Answered
<1> QED
  BY <1>1, <1>2

(* The types of the handler. *)
THEOREM HandlerTypeCorrect == Http!HandlerSpec => []Http!HandlerTypeOK
  BY InitHandlerInv, StepHandlerInv, InvAnswers, PTL DEF Http!HandlerSpec

(* A client is answered once and with what it is due, as AnswerIsDue says, by
   any worker and for a file of any length. *)
THEOREM AnswerIsDueCorrect == Http!HandlerSpec => []Http!AnswerIsDue
  BY InitHandlerInv, StepHandlerInv, InvAnswers, PTL DEF Http!HandlerSpec

-----------------------------------------------------------------------------
(* The server *)

(* As in the locked server: main only puts and destroys, workers only get;
   main destroys the queue at the end of main, when the workers have left. *)
MainPlace   == {"idle", "put_lock", "put_append", "put_wake", "put_count",
                "destroy_lock", "destroy_loop", "destroyed"}
WorkerPlace == {"idle", "get_lock", "get_test", "wait_read", "wait_sleep", "get_wait", "get_free", "got"}
Roles ==
  /\ pc[Main] \in MainPlace
  /\ pc[Main] \in {"destroy_lock", "destroy_loop", "destroyed"} <=> mpc = "destroy"
  /\ \A w \in Worker : pc[w] \in WorkerPlace /\ (Dead(w) => pc[w] = "idle")
  /\ mpc = "destroy" => \A w \in Worker : Dead(w)

FutexServerInv == FutexInv /\ ServerDataTypeOK /\ Roles

(* What SigintInWait does to the queue. *)
LeaveWait(w) ==
  /\ At(w, "get_wait")
  /\ sleepers' = sleepers \ {w}
  /\ Goto(w, "get_lock")
  /\ UNCHANGED <<msg, sock, mutex, listVars, spurious, exited, futexVars>>

-----------------------------------------------------------------------------
(* The queue in the server *)

(* A signal takes a worker out of its wait, and changes nothing else. *)
LEMMA LeaveWaitKeeps ==
  ASSUME FutexInv, NEW w \in Worker, LeaveWait(w)
  PROVE  FutexInv'
<1> USE ServerAssumption DEF FutexInv
<1>1. UNCHANGED <<Place, msg, sock, mutex, L!listVars, spurious>> /\ exited' \in BOOLEAN
  BY DEF LeaveWait, FutexTypeOK, DataTypeOK, Place, Away, At, Goto, listVars, L!listVars
<1>2. L!IInv'
  BY <1>1, L!StutterKeeps, NullAssumption, MaxSpuriousAssumption, ServerAssumption, SamePool
<1>3. PlacesOK'
  BY DEF LeaveWait, PlacesOK, FutexTypeOK, At, Goto, Label, futexVars
<1>4. WaitingWasMissed'
  <2>1. \A t \in Thread : pc'[t] = IF t = w THEN "get_lock" ELSE pc[t]
    BY DEF LeaveWait, Goto, FutexTypeOK
  <2>2. BroadcastIsDue' <=> BroadcastIsDue
    BY <2>1 DEF LeaveWait, At, BroadcastIsDue, listVars
  <2>3. \A t \in Thread : Waiting(t)' => Waiting(t)
    BY <2>1 DEF LeaveWait, Waiting, InGap
  <2> QED
    BY <2>2, <2>3 DEF LeaveWait, WaitingWasMissed, listVars, futexVars
<1>5. (L!IInv /\ PlacesOK => FutexTypeOK)'
  BY Types, PTL
<1> QED
  BY <1>2, <1>3, <1>4, <1>5

(* ... and the abstract queue does not see it. *)
LEMMA LeaveWaitStutters ==
  ASSUME FutexInv, NEW w \in Worker, LeaveWait(w)
  PROVE  [Fifo!Next]_(Fifo!vars)
<1>1. UNCHANGED <<val, order, sock, msg, Place>>
  BY DEF FutexInv, LeaveWait, FutexTypeOK, Place, Away, At, Goto, listVars
<1> QED
  BY <1>1, L!MoveStutters, SameFifo, NullAssumption, MaxSpuriousAssumption, ServerAssumption, SamePool

(* The queue may be used as long as main has not begun to destroy it. *)
LEMMA UsableBefore ==
  ASSUME Roles, mpc # "destroy"
  PROVE  Usable
  BY ServerAssumption DEF Roles, Usable, MainPlace, WorkerPlace

(* When the joins are over, only main is left. *)
LEMMA QuiescentAfterJoin ==
  ASSUME Roles, Joined
  PROVE  Quiescent(Main)
  BY ServerAssumption DEF Roles, Joined, Quiescent

(* Every step of the server is one of the queue, or a signal in its wait. *)
LEMMA StepIsQueueStep ==
  FutexServerInv /\ [FutexServerNext]_serverAll => [FutexNext]_queueVars \/ \E w \in Worker : LeaveWait(w)
<1> DEFINE Goal == [FutexNext]_queueVars \/ \E w \in Worker : LeaveWait(w)
<1> SUFFICES ASSUME FutexServerInv, [FutexServerNext]_serverAll PROVE Goal
  OBVIOUS
<1> USE ServerAssumption DEF FutexServerInv
<1>1. ASSUME NEW t \in Thread, Common(t), UNCHANGED futexVars PROVE Goal
  BY <1>1 DEF FutexNext
<1>2. ASSUME UNCHANGED <<vars, futexVars>> PROVE Goal
  BY <1>2 DEF queueVars
<1>3. ASSUME Exit, UNCHANGED futexVars PROVE Goal
  BY <1>3 DEF FutexNext
<1>4. ASSUME NEW t \in Thread, Call(t) \/ GetReturn(t), UNCHANGED futexVars PROVE Goal
  BY <1>1, <1>4 DEF Common
<1>5. ASSUME NEW t \in Thread, InsideFutex(t) PROVE Goal
  BY <1>1, <1>5 DEF InsideFutex, Common, FutexNext
<1> HIDE DEF Goal
<1>6. CASE MainStepFutex
  <2>1. CASE PutPoison /\ UNCHANGED futexVars
    <3>1. PutAlloc(Main, POISON) /\ Usable
      BY <2>1, UsableBefore DEF PutPoison
    <3> QED
      BY <1>4, <2>1, <3>1 DEF Call
  <2>2. CASE Join /\ UNCHANGED futexVars
    <3>1. DestroyCall(Main) /\ Usable /\ Quiescent(Main)
      BY <2>2, UsableBefore, QuiescentAfterJoin DEF Join
    <3> QED
      BY <1>4, <2>2, <3>1 DEF Call
  <2>3. CASE EndOfPoison /\ UNCHANGED futexVars
    BY <1>2, <2>3 DEF EndOfPoison
  <2>4. CASE ReturnFromMain /\ UNCHANGED futexVars
    BY <1>3, <2>4 DEF ReturnFromMain
  <2> QED
    BY <1>5, <1>6, <2>1, <2>2, <2>3, <2>4 DEF MainStepFutex
<1>7. ASSUME NEW w \in Worker, WorkerStepFutex(w) PROVE Goal
  <2>1. CASE WorkerGet(w) /\ UNCHANGED futexVars
    <3>1. GetCall(w) /\ Usable
      BY <2>1, UsableBefore DEF WorkerGet, Roles
    <3> QED
      BY <1>4, <2>1, <3>1 DEF Call
  <2>2. CASE (Open(w) \/ Poisoned(w)) /\ UNCHANGED futexVars
    BY <1>2, <1>4, <2>2 DEF Open, Poisoned
  <2>3. CASE HandleRequest(w) \/ CloseConnection(w)
    BY <1>2, <1>4, <2>3 DEF HandleRequest, CloseConnection, allVars
  <2> QED
    BY <1>5, <1>7, <2>1, <2>2, <2>3 DEF WorkerStepFutex
<1>8. CASE EnvironmentFutex
  <2>1. ASSUME NEW c \in Conn, Accept(c), UNCHANGED futexVars PROVE Goal
    <3>1. PutAlloc(Main, c) /\ Usable
      BY <2>1, UsableBefore DEF Accept
    <3> QED
      BY <1>4, <2>1, <3>1 DEF Call
  <2>2. CASE AcceptFails /\ UNCHANGED futexVars
    BY <1>3, <2>2 DEF AcceptFails, PutOutOfMemory, At, Exit
  <2>3. CASE (SigintInAccept \/ SigintElsewhere) /\ UNCHANGED futexVars
    BY <1>2, <2>3 DEF SigintInAccept, SigintElsewhere
  <2>4. ASSUME NEW w \in Worker, PeerGone(w) \/ FdopenFails(w), UNCHANGED futexVars PROVE Goal
    BY <1>3, <1>4, <2>4 DEF PeerGone, FdopenFails
  <2>5. ASSUME NEW w \in Worker, ClientCloses(w) \/ SigintInFgets(w) PROVE Goal
    BY <1>2, <2>5 DEF ClientCloses, SigintInFgets, allVars
  <2>6. ASSUME NEW w \in Worker, SigintInWait(w) PROVE Goal
    BY <2>6 DEF SigintInWait, LeaveWait, Goal
  <2> QED
    BY <1>8, <2>1, <2>2, <2>3, <2>4, <2>5, <2>6 DEF EnvironmentFutex
<1>9. CASE UNCHANGED serverAll
  BY <1>2, <1>9 DEF serverAll, allVars
<1> QED
  BY <1>6, <1>7, <1>8, <1>9 DEF FutexServerNext

-----------------------------------------------------------------------------
(* The roles *)

(* A step of main stays in main's places, and enters the destruction of the
   queue only at the end. *)
LEMMA MainMoves ==
  ASSUME FutexServerInv, NEW label \in MainPlace, Goto(Main, label), UNCHANGED worker,
         label \in {"destroy_lock", "destroy_loop", "destroyed"} <=> mpc' = "destroy",
         mpc' = "destroy" => \A w \in Worker : Dead(w)
  PROVE  Roles'
<1> USE ServerAssumption DEF FutexServerInv, FutexInv, FutexTypeOK, Roles
<1>1. pc'[Main] = label /\ \A w \in Worker : pc'[w] = pc[w]
  BY DEF Goto
<1> QED
  BY <1>1 DEF Dead

(* A step of a worker stays in the workers' places. *)
LEMMA WorkerMoves ==
  ASSUME FutexServerInv, NEW w \in Worker, NEW label \in WorkerPlace, Goto(w, label), UNCHANGED mpc,
         worker' = worker \/ (worker' = [worker EXCEPT ![w] = "dead"] /\ label = "idle"),
         label # "idle" => ~Dead(w)
  PROVE  Roles'
<1> USE ServerAssumption DEF FutexServerInv, FutexInv, FutexTypeOK, ServerDataTypeOK, Roles
<1>1. pc'[w] = label /\ \A t \in Thread \ {w} : pc'[t] = pc[t]
  BY DEF Goto
<1>2. \A u \in Worker : Dead(u)' => Dead(u) \/ (u = w /\ label = "idle")
  BY DEF Dead
<1>3. \A u \in Worker : Dead(u) => Dead(u)'
  BY DEF Dead
<1> QED
  BY <1>1, <1>2, <1>3

(* A step that moves nobody. *)
LEMMA NobodyMoves ==
  ASSUME Roles, UNCHANGED <<pc, worker>>, mpc' = mpc \/ (mpc' # "destroy" /\ mpc # "destroy")
  PROVE  Roles'
  BY DEF Roles, Dead

(* The threads inside the queue keep to their roles. *)
LEMMA InsideKeepsRoles ==
  ASSUME FutexServerInv, NEW t \in Thread, InsideFutex(t)
  PROVE  Roles'
<1> USE ServerAssumption DEF FutexServerInv
<1>1. UNCHANGED serverVars
  BY DEF InsideFutex
<1>2. CASE PutLock(t) \/ PutAppend(t) \/ PutCount(t)
  <2>1. t = Main /\ mpc # "destroy"
    BY <1>2 DEF PutLock, PutAppend, PutCount, At, Roles, WorkerPlace
  <2> QED
    BY <1>1, <1>2, <2>1, MainMoves DEF PutLock, PutAppend, PutCount, MainPlace, serverVars
<1>3. CASE GetLock(t) \/ GetRemove(t) \/ GetFree(t) \/ GetUnlock(t) \/ WaitRead(t) \/ WaitSleep(t)
  <2>1. t \in Worker /\ ~Dead(t)
    BY <1>3 DEF GetLock, GetRemove, GetFree, GetUnlock, WaitRead, WaitSleep, At, Roles, MainPlace
  <2>2. \E label \in WorkerPlace : label # "idle" /\ Goto(t, label)
    BY <1>3 DEF GetLock, GetRemove, GetFree, GetUnlock, WaitRead, WaitSleep, WorkerPlace
  <2> QED
    BY <1>1, <2>1, <2>2, WorkerMoves DEF serverVars
<1>4. CASE DestroyLock(t) \/ DestroyEnd(t)
  <2>1. t = Main /\ mpc = "destroy"
    BY <1>4 DEF DestroyLock, DestroyEnd, At, Roles, WorkerPlace
  <2> QED
    BY <1>1, <1>4, <2>1, MainMoves DEF DestroyLock, DestroyEnd, MainPlace, Roles, serverVars
<1>5. CASE DestroyFree(t)
  BY <1>1, <1>5, NobodyMoves DEF DestroyFree, serverVars
<1>6. CASE BroadcastFutex(t)
  <2>1. t = Main /\ mpc # "destroy"
    BY <1>6 DEF BroadcastFutex, At, Roles, WorkerPlace
  <2>2. /\ pc'[Main] = "put_count"
        /\ \A w \in Worker : pc'[w] = pc[w] \/ (pc[w] = "get_wait" /\ pc'[w] = "get_lock")
    BY <1>6, <2>1 DEF BroadcastFutex, FutexWake, FutexInv, FutexTypeOK, Goto
  <2> QED
    BY <1>1, <2>1, <2>2 DEF Roles, Dead, MainPlace, WorkerPlace, serverVars
<1> QED
  BY <1>2, <1>3, <1>4, <1>5, <1>6 DEF InsideFutex

(* Every step keeps the roles. *)
LEMMA StepRoles == FutexServerInv /\ [FutexServerNext]_serverAll => Roles'
<1> SUFFICES ASSUME FutexServerInv, [FutexServerNext]_serverAll PROVE Roles'
  OBVIOUS
<1>1. CASE MainStepFutex
  <2>1. CASE PutPoison
    BY <2>1, MainMoves DEF PutPoison, PutAlloc, MainPlace
  <2>2. CASE Join
    BY <2>2, MainMoves DEF Join, Joined, DestroyCall, MainPlace
  <2>3. CASE EndOfPoison
    BY <2>3, NobodyMoves DEF EndOfPoison, FutexServerInv, vars
  <2>4. CASE ReturnFromMain
    BY <2>4, NobodyMoves DEF ReturnFromMain, Exit, FutexServerInv, serverVars
  <2> QED
    BY <1>1, <2>1, <2>2, <2>3, <2>4, InsideKeepsRoles, ServerAssumption DEF MainStepFutex
<1>2. ASSUME NEW w \in Worker, WorkerStepFutex(w) PROVE Roles'
  <2>1. CASE WorkerGet(w)
    BY <2>1, WorkerMoves DEF WorkerGet, GetCall, WorkerPlace, serverVars
  <2>2. CASE Open(w)
    BY <2>2, NobodyMoves DEF Open, FutexServerInv, vars
  <2>3. CASE Poisoned(w)
    BY <2>3, WorkerMoves DEF Poisoned, GetReturn, WorkerPlace
  <2>4. CASE HandleRequest(w)
    BY <2>4, NobodyMoves DEF HandleRequest, FutexServerInv, allVars, vars, serverVars
  <2>5. CASE CloseConnection(w)
    BY <2>5, WorkerMoves DEF CloseConnection, GetReturn, WorkerPlace
  <2> QED
    BY <1>2, <2>1, <2>2, <2>3, <2>4, <2>5, InsideKeepsRoles, ServerAssumption DEF WorkerStepFutex
<1>3. CASE EnvironmentFutex
  <2>1. ASSUME NEW c \in Conn, Accept(c) PROVE Roles'
    BY <2>1, MainMoves DEF Accept, PutAlloc, MainPlace
  <2>2. CASE AcceptFails
    BY <2>2, NobodyMoves DEF AcceptFails, PutOutOfMemory, FutexServerInv, serverVars
  <2>3. CASE SigintInAccept \/ SigintElsewhere
    BY <2>3, NobodyMoves DEF SigintInAccept, SigintElsewhere, FutexServerInv, vars
  <2>4. ASSUME NEW w \in Worker, PeerGone(w) PROVE Roles'
    BY <2>4, NobodyMoves DEF PeerGone, Exit, FutexServerInv, serverVars
  <2>5. ASSUME NEW w \in Worker, FdopenFails(w) PROVE Roles'
    BY <2>5, WorkerMoves DEF FdopenFails, GetReturn, WorkerPlace
  <2>6. ASSUME NEW w \in Worker, ClientCloses(w) \/ SigintInFgets(w) PROVE Roles'
    BY <2>6, NobodyMoves DEF ClientCloses, SigintInFgets, FutexServerInv, allVars, vars, serverVars
  <2>7. ASSUME NEW w \in Worker, SigintInWait(w) PROVE Roles'
    <3>1. ~Dead(w)
      BY <2>7 DEF SigintInWait, At, FutexServerInv, Roles
    <3> QED
      BY <2>7, <3>1, WorkerMoves DEF SigintInWait, WorkerPlace
  <2> QED
    BY <1>3, <2>1, <2>2, <2>3, <2>4, <2>5, <2>6, <2>7 DEF EnvironmentFutex
<1>4. CASE UNCHANGED serverAll
  BY <1>4, NobodyMoves DEF serverAll, allVars, vars, serverVars, FutexServerInv
<1> QED
  BY <1>1, <1>2, <1>3, <1>4 DEF FutexServerNext

(* The pool has a size. *)
LEMMA PoolSize == Cardinality(Worker) \in Nat
  BY ServerAssumption, FS_CardinalityType

(* Every step keeps the types of the server's own variables. *)
LEMMA StepServerTypes == FutexServerInv /\ [FutexServerNext]_serverAll => ServerDataTypeOK'
<1> SUFFICES ASSUME ServerDataTypeOK, [FutexServerNext]_serverAll PROVE ServerDataTypeOK'
  BY DEF FutexServerInv
<1> USE ServerAssumption, PoolSize DEF ServerDataTypeOK, SetFd
<1>1. ASSUME UNCHANGED serverVars PROVE ServerDataTypeOK'
  BY <1>1 DEF serverVars
<1>2. ASSUME CleanupHandler PROVE signals' \in 0..MaxSignals /\ flag_term' \in BOOLEAN
  BY <1>2 DEF CleanupHandler
<1>3. ASSUME NEW t \in Thread, InsideFutex(t) PROVE ServerDataTypeOK'
  BY <1>1, <1>3 DEF InsideFutex
<1>4. CASE MainStepFutex
  <2>1. CASE PutPoison
    <3>1. poisoned' \in 0..Cardinality(Worker)
      BY <2>1 DEF PutPoison, Poisons
    <3> QED
      BY <2>1, <3>1 DEF PutPoison
  <2>2. CASE Join \/ EndOfPoison \/ ReturnFromMain
    BY <1>1, <2>2 DEF Join, EndOfPoison, ReturnFromMain
  <2> QED
    BY <1>3, <1>4, <2>1, <2>2 DEF MainStepFutex
<1>5. ASSUME NEW w \in Worker, WorkerStepFutex(w) PROVE ServerDataTypeOK'
  <2>1. CASE WorkerGet(w) \/ Open(w) \/ Poisoned(w)
    BY <1>1, <2>1 DEF WorkerGet, Open, Poisoned
  <2>2. CASE HandleRequest(w)
    BY <1>1, <2>2 DEF HandleRequest, allVars
  <2>3. CASE CloseConnection(w)
    BY <2>3 DEF CloseConnection
  <2> QED
    BY <1>3, <1>5, <2>1, <2>2, <2>3 DEF WorkerStepFutex
<1>6. CASE EnvironmentFutex
  <2>1. ASSUME NEW c \in Conn, Accept(c) PROVE ServerDataTypeOK'
    BY <2>1 DEF Accept
  <2>2. CASE SigintInAccept \/ SigintElsewhere
    BY <1>2, <2>2 DEF SigintInAccept, SigintElsewhere
  <2>3. ASSUME NEW w \in Worker, FdopenFails(w) PROVE ServerDataTypeOK'
    <3>1. failures' \in 0..MaxFdopenFailure
      BY <2>3 DEF FdopenFails
    <3> QED
      BY <2>3, <3>1 DEF FdopenFails
  <2>4. ASSUME NEW w \in Worker, SigintInFgets(w) \/ SigintInWait(w) PROVE ServerDataTypeOK'
    BY <1>2, <2>4 DEF SigintInFgets, SigintInWait
  <2>5. ASSUME NEW w \in Worker, ClientCloses(w) PROVE ServerDataTypeOK'
    BY <1>1, <2>5 DEF ClientCloses, allVars
  <2> QED
    BY <1>1, <1>6, <2>1, <2>2, <2>3, <2>4, <2>5 DEF EnvironmentFutex, AcceptFails, PeerGone
<1>7. CASE UNCHANGED serverAll
  BY <1>1, <1>7 DEF serverAll, allVars
<1> QED
  BY <1>4, <1>5, <1>6, <1>7 DEF FutexServerNext

-----------------------------------------------------------------------------
(* The theorems *)

(* The invariant holds throughout. *)
LEMMA FutexServerInvariant == FutexServerSpec => []FutexServerInv
<1>1. FutexServerInit => FutexServerInv
  <2> SUFFICES ASSUME FutexServerInit PROVE FutexServerInv
    OBVIOUS
  <2>1. FutexInv
    BY InitFutexInv DEF FutexServerInit
  <2>2. ServerDataTypeOK
    <3>1. 0 \in 0..Cardinality(Worker) /\ 0 \in 0..MaxSignals /\ 0 \in 0..MaxFdopenFailure
      BY ServerAssumption, PoolSize
    <3> QED
      BY <3>1 DEF FutexServerInit, ServerInit, ServerDataTypeOK
  <2>3. Roles
    BY ServerAssumption DEF FutexServerInit, ServerInit, Init, Roles, MainPlace, WorkerPlace
  <2> QED
    BY <2>1, <2>2, <2>3 DEF FutexServerInv
<1>2. FutexServerInv /\ [FutexServerNext]_serverAll => FutexServerInv'
  <2> SUFFICES ASSUME FutexServerInv, [FutexServerNext]_serverAll PROVE FutexServerInv'
    OBVIOUS
  <2>1. FutexInv'
    BY StepIsQueueStep, StepFutexInv, LeaveWaitKeeps DEF FutexServerInv
  <2> QED
    BY <2>1, StepRoles, StepServerTypes DEF FutexServerInv
<1> QED
  BY <1>1, <1>2, PTL DEF FutexServerSpec

(* The handler does only what HttpHandler says. *)
LEMMA StepIsHandlerStep == [FutexServerNext]_serverAll => [Http!HandlerNext]_rq
<1> SUFFICES ASSUME [FutexServerNext]_serverAll PROVE [Http!HandlerNext]_rq
  OBVIOUS
<1>1. ASSUME NEW w \in Worker, Http!HandlerStep(w) \/ Http!ReadFails(w) \/ Http!Close(w)
      PROVE  Http!HandlerNext
  BY <1>1 DEF Http!HandlerNext
<1>2. CASE MainStepFutex
  BY <1>2 DEF MainStepFutex, InsideFutex
<1>3. ASSUME NEW w \in Worker, WorkerStepFutex(w) PROVE [Http!HandlerNext]_rq
  BY <1>1, <1>3 DEF WorkerStepFutex, InsideFutex, HandleRequest, CloseConnection
<1>4. CASE EnvironmentFutex
  BY <1>1, <1>4 DEF EnvironmentFutex, ClientCloses, SigintInFgets, SigintInWait
<1>5. CASE UNCHANGED serverAll
  BY <1>5 DEF serverAll
<1> QED
  BY <1>2, <1>3, <1>4, <1>5 DEF FutexServerNext

(* Seen at the requests alone, the server is the handler. *)
LEMMA ServerIsHandler == FutexServerSpec => Http!HandlerSpec
<1>1. FutexServerInit => Http!HandlerInit
  BY DEF FutexServerInit
<1> QED
  BY <1>1, StepIsHandlerStep, PTL DEF FutexServerSpec, Http!HandlerSpec

(* The types of the server of http-server-futex.c. *)
THEOREM FutexServerTypeCorrect == FutexServerSpec => []FutexServerTypeOK
<1>1. FutexServerInv /\ Http!HandlerTypeOK => FutexServerTypeOK
  BY DEF FutexServerInv, FutexInv, FutexServerTypeOK
<1> QED
  BY <1>1, FutexServerInvariant, ServerIsHandler, HandlerTypeCorrect, PTL

(* No message is leaked, freed twice or used after its free, while signals
   interrupt the waits of the workers and main destroys the queue. *)
THEOREM ServerHeapCorrect == FutexServerSpec => []HeapAccounts
<1>1. FutexServerInv => HeapAccounts
  BY DEF FutexServerInv, FutexInv, FutexTypeOK, L!IInv, L!HeapAccounts, HeapAccounts, L!Owns, Owns,
         L!OnList, OnList, Place, Away
<1> QED
  BY <1>1, FutexServerInvariant, PTL

(* In the server too, a worker that sleeps beside a message with no broadcast
   on its way was passed over by a broadcast. *)
THEOREM ServerStrandedWasMissed == FutexServerSpec => []StrandedWasMissed
<1>1. FutexServerInv => StrandedWasMissed
  BY DEF FutexServerInv, FutexInv, FutexTypeOK, DataTypeOK, WaitingWasMissed, BroadcastIsDue, Waiting,
         StrandedWasMissed
<1> QED
  BY <1>1, FutexServerInvariant, PTL

(* The queue of the server implements the abstract FIFO queue: the workers
   take the connections, and then the poison, in the order main put them. *)
THEOREM ServerFifoCorrect == FutexServerSpec => FutexFifoRefinement
<1>1. FutexServerInit => Fifo!Init
  <2> SUFFICES ASSUME FutexServerInit PROVE Fifo!Init
    OBVIOUS
  <2>1. [i \in 1..Len(order) |-> val[order[i]]] = <<>>
    BY DEF FutexServerInit, FutexInit, Init
  <2>2. [t \in Thread |-> Taken(t)] = [t \in Thread |-> NULL]
    BY DEF FutexServerInit, FutexInit, Init, Taken
  <2> QED
    BY <2>1, <2>2 DEF Fifo!Init
<1>2. FutexServerInv /\ [FutexServerNext]_serverAll => [Fifo!Next]_(Fifo!vars)
  BY StepIsQueueStep, StepFutexRefines, LeaveWaitStutters DEF FutexServerInv
<1>3. FutexServerSpec => Fifo!Init /\ [][Fifo!Next]_(Fifo!vars)
  BY <1>1, <1>2, FutexServerInvariant, PTL DEF FutexServerSpec
<1> QED
  BY <1>3 DEF FutexFifoRefinement, FifoRefinement, Fifo!Spec

(* Whatever signals, failures and the queue do to the workers, each client
   is answered once and with what it is due. *)
THEOREM ServerAnswersCorrect == FutexServerSpec => []AnswerIsDue
<1>1. Http!AnswerIsDue <=> AnswerIsDue
  BY DEF AnswerIsDue
<1> QED
  BY <1>1, ServerIsHandler, AnswerIsDueCorrect, PTL
=============================================================================
