------------------------- MODULE CountedServerProofs -------------------------
(***************************************************************************)
(* Proofs about CountedServer, for every finite pool of workers and every  *)
(* set of descriptors: the types, the account of the counter, and that the *)
(* workers never all sleep on a connection.                                *)
(***************************************************************************)
EXTENDS CountedServer, FiniteSetTheorems, TLAPS

(* One worker moves to a place: who is between dequeue and subtract then. *)
LEMMA MoveOne ==
  ASSUME NEW w \in Worker, NEW label, CountedTypeOK, Goto(w, label)
  PROVE  Subtracting' = IF label = "subtract" THEN Subtracting \cup {w}
                                              ELSE Subtracting \ {w}
  BY DEF CountedTypeOK, Goto, Subtracting

(* The workers between dequeue and subtract are finitely many. *)
LEMMA SubtractingFinite ==
  IsFiniteSet(Subtracting) /\ Cardinality(Subtracting) \in Nat
<1>1. Subtracting \in SUBSET Worker
  BY DEF Subtracting
<1> QED
  BY <1>1, WorkerAssumption, FS_Subset, FS_CardinalityType

(* The type invariant of the servers with a counter. *)
THEOREM TypeCorrect == Spec => []CountedTypeOK
<1>1. Init => CountedTypeOK
  <2> SUFFICES ASSUME Init PROVE CountedTypeOK
    OBVIOUS
  <2>1. failures \in 0..MaxFdopenFailure
    BY FailureAssumption DEF Init
  <2>2. exited \in BOOLEAN
    BY DEF Init
  <2> QED
    BY <2>1, <2>2 DEF Init, CountedTypeOK
<1>2. CountedTypeOK /\ [Next]_vars => CountedTypeOK'
  <2> SUFFICES ASSUME CountedTypeOK, [Next]_vars
               PROVE  CountedTypeOK'
    OBVIOUS
  <2> USE DEF CountedTypeOK
  <2>1. ASSUME NEW c \in Conn, Enqueue(c) PROVE CountedTypeOK'
    BY <2>1 DEF Enqueue, SetFd
  <2>2. CASE Add
    BY <2>2 DEF Add
  <2>3. CASE Signal
    BY <2>3 DEF Signal, Goto, Sleepers
  <2>4. ASSUME NEW w \in Worker, Wait(w) PROVE CountedTypeOK'
    BY <2>4 DEF Wait, Goto
  <2>5. ASSUME NEW w \in Worker, Interrupted(w) PROVE CountedTypeOK'
    BY <2>5 DEF Interrupted, Goto
  <2>6. ASSUME NEW w \in Worker, Test(w) PROVE CountedTypeOK'
    BY <2>6 DEF Test, Goto
  <2>7. ASSUME NEW w \in Worker, Dequeue(w) PROVE CountedTypeOK'
    BY <2>7 DEF Dequeue, Goto
  <2>8. ASSUME NEW w \in Worker, DequeueEmpty(w) PROVE CountedTypeOK'
    BY <2>8 DEF DequeueEmpty, Goto
  <2>9. ASSUME NEW w \in Worker, Subtract(w) PROVE CountedTypeOK'
    BY <2>9 DEF Subtract, Goto
  <2>10. ASSUME NEW w \in Worker, Open(w) PROVE CountedTypeOK'
    BY <2>10 DEF Open, Goto, SetFd
  <2>11. ASSUME NEW w \in Worker, FdopenFails(w) PROVE CountedTypeOK'
    <3>1. failures' \in 0..MaxFdopenFailure
      BY <2>11, FailureAssumption DEF FdopenFails
    <3> QED
      BY <2>11, <3>1 DEF FdopenFails, Goto, SetFd
  <2>12. ASSUME NEW w \in Worker, Serve(w) \/ SigintInRead(w) PROVE CountedTypeOK'
    BY <2>12 DEF Serve, SigintInRead, Close, Goto, SetFd
  <2>13. CASE Exit
    BY <2>13 DEF Exit
  <2>14. CASE UNCHANGED vars
    BY <2>14 DEF vars
  <2> QED
    BY <2>1, <2>2, <2>3, <2>4, <2>5, <2>6, <2>7, <2>8, <2>9, <2>10, <2>11, <2>12,
       <2>13, <2>14 DEF Next, MainStep, WorkerStep, Environment
<1> QED
  BY <1>1, <1>2, PTL DEF Spec

(* The counter is the length of the queue, but for the operations that are
   half done (queue_put adds after enqueue, queue_get subtracts after
   dequeue). *)
THEOREM CounterCorrect == Spec => []CounterAccounts
<1>1. Init => CounterAccounts
  <2> SUFFICES ASSUME Init PROVE CounterAccounts
    OBVIOUS
  <2>1. Subtracting = {}
    BY DEF Init, Subtracting
  <2> QED
    BY <2>1, FS_EmptySet DEF Init, CounterAccounts
<1>2. CountedTypeOK /\ CounterAccounts /\ [Next]_vars => CounterAccounts'
  <2> SUFFICES ASSUME CountedTypeOK, CounterAccounts, [Next]_vars
               PROVE  CounterAccounts'
    OBVIOUS
  <2>0. /\ IsFiniteSet(Subtracting) /\ Cardinality(Subtracting) \in Nat
        /\ Len(queue) \in Nat /\ counter \in Int
    BY SubtractingFinite DEF CountedTypeOK
  <2>1. ASSUME NEW c \in Conn, Enqueue(c) PROVE CounterAccounts'
    <3>1. Subtracting' = Subtracting
      BY <2>1 DEF Enqueue, Subtracting
    <3>2. Len(queue') = Len(queue) + 1
      BY <2>1 DEF Enqueue, CountedTypeOK
    <3> QED
      BY <2>0, <2>1, <3>1, <3>2 DEF CounterAccounts, Enqueue, Main
  <2>2. CASE Add
    <3>1. Subtracting' = Subtracting
      BY <2>2 DEF Add, Subtracting
    <3> QED
      BY <2>0, <2>2, <3>1 DEF CounterAccounts, Add, Main
  <2>3. CASE Signal
    <3>1. Subtracting' = Subtracting
      BY <2>3 DEF Signal, Subtracting, Sleepers, Goto, CountedTypeOK
    <3> QED
      BY <2>0, <2>3, <3>1 DEF CounterAccounts, Signal, Main
  <2>4. ASSUME NEW w \in Worker, Dequeue(w) PROVE CounterAccounts'
    <3>1. Subtracting' = Subtracting \cup {w}
      BY <2>4, MoveOne DEF Dequeue
    <3>2. w \notin Subtracting
      BY <2>4 DEF Dequeue, At, Subtracting
    <3>3. Cardinality(Subtracting') = Cardinality(Subtracting) + 1
      BY <2>0, <3>1, <3>2, FS_AddElement
    <3>4. Len(queue') = Len(queue) - 1
      BY <2>4 DEF Dequeue, CountedTypeOK
    <3> QED
      BY <2>0, <2>4, <3>3, <3>4 DEF CounterAccounts, Dequeue
  <2>5. ASSUME NEW w \in Worker, Subtract(w) PROVE CounterAccounts'
    <3>1. Subtracting' = Subtracting \ {w}
      BY <2>5, MoveOne DEF Subtract
    <3>2. w \in Subtracting
      BY <2>5 DEF Subtract, At, Subtracting
    <3>3. Cardinality(Subtracting') = Cardinality(Subtracting) - 1
      BY <2>0, <3>1, <3>2, FS_RemoveElement
    <3> QED
      BY <2>0, <2>5, <3>3 DEF CounterAccounts, Subtract
  <2>6. ASSUME NEW w \in Worker, NEW label, label # "subtract", pc[w] # "subtract",
               Goto(w, label), UNCHANGED <<queue, counter, mpc>>
        PROVE  CounterAccounts'
    <3>1. Subtracting' = Subtracting
      BY <2>6, MoveOne DEF Subtracting
    <3> QED
      BY <2>6, <3>1 DEF CounterAccounts
  <2>7. ASSUME NEW w \in Worker,
               Wait(w) \/ Interrupted(w) \/ Test(w) \/ DequeueEmpty(w) \/ Open(w)
                 \/ FdopenFails(w) \/ Serve(w) \/ SigintInRead(w)
        PROVE  CounterAccounts'
    <3>1. pc[w] # "subtract" /\ UNCHANGED <<queue, counter, mpc>>
      BY <2>7 DEF Wait, Interrupted, Test, DequeueEmpty, Open, FdopenFails, Serve,
                  SigintInRead, Close, At
    <3>2. \E label : label # "subtract" /\ Goto(w, label)
      BY <2>7 DEF Wait, Interrupted, Test, DequeueEmpty, Open, FdopenFails, Serve,
                  SigintInRead, Close
    <3> QED
      BY <2>6, <3>1, <3>2
  <2>8. CASE Exit \/ UNCHANGED vars
    BY <2>8 DEF Exit, vars, CounterAccounts, Subtracting
  <2> QED
    BY <2>1, <2>2, <2>3, <2>4, <2>5, <2>7, <2>8
    DEF Next, MainStep, WorkerStep, Environment
<1> QED
  BY <1>1, <1>2, TypeCorrect, PTL DEF Spec

(* The strengthening of NotAllAsleep: all workers sleep only on a counter of
   0, or on one that main has just made 1 and is about to signal.  A worker
   goes to sleep only when the counter is 0, and main leaves 0 only into
   signal, which wakes one of them. *)
AsleepOnZero == AllAsleep => counter = 0 \/ mpc = "signal"

(* No step of any thread breaks it. *)
LEMMA AsleepOnZeroInvariant == Spec => []AsleepOnZero
<1>1. Init => AsleepOnZero
  BY DEF Init, AsleepOnZero
<1>2. CountedTypeOK /\ AsleepOnZero /\ [Next]_vars => AsleepOnZero'
  <2> SUFFICES ASSUME CountedTypeOK, AsleepOnZero, [Next]_vars, AllAsleep'
               PROVE  (counter = 0 \/ mpc = "signal")'
    BY DEF AsleepOnZero
  <2> USE DEF AsleepOnZero, AllAsleep
  <2>1. ASSUME NEW c \in Conn, Enqueue(c) PROVE (counter = 0 \/ mpc = "signal")'
    BY <2>1 DEF Enqueue, Main
  <2>2. CASE Add
    BY <2>2 DEF Add, Main
  <2>3. CASE Signal
    <3>1. Sleepers # {}
      BY <2>3, WorkerAssumption DEF Signal, Sleepers
    <3>2. PICK w \in Sleepers : Goto(w, "test")
      BY <2>3, <3>1 DEF Signal
    <3> QED
      BY <3>2 DEF Sleepers, Goto, CountedTypeOK
  <2>4. ASSUME NEW w \in Worker, Wait(w) PROVE (counter = 0 \/ mpc = "signal")'
    BY <2>4 DEF Wait, Goto, CountedTypeOK
  <2>5. ASSUME NEW w \in Worker, NEW label, label # "asleep", Goto(w, label) PROVE FALSE
    BY <2>5 DEF Goto, CountedTypeOK
  <2>6. ASSUME NEW w \in Worker,
               Interrupted(w) \/ Test(w) \/ Dequeue(w) \/ DequeueEmpty(w)
                 \/ Subtract(w) \/ Open(w) \/ FdopenFails(w) \/ Serve(w)
                 \/ SigintInRead(w)
        PROVE  FALSE
    <3>1. \E label : label # "asleep" /\ Goto(w, label)
      BY <2>6 DEF Interrupted, Test, Dequeue, DequeueEmpty, Subtract, Open,
                  FdopenFails, Serve, SigintInRead, Close
    <3> QED
      BY <2>5, <3>1
  <2>7. CASE Exit \/ UNCHANGED vars
    BY <2>7 DEF Exit, vars
  <2> QED
    BY <2>1, <2>2, <2>3, <2>4, <2>6, <2>7 DEF Next, MainStep, WorkerStep, Environment
<1> QED
  BY <1>1, <1>2, TypeCorrect, PTL DEF Spec

(* The workers never all sleep on a connection: main's signal on the
   transition of the counter from 0 is never missed. *)
THEOREM NotAllAsleepCorrect == Spec => []NotAllAsleep
<1>1. CountedTypeOK /\ CounterAccounts /\ AsleepOnZero => NotAllAsleep
  <2> SUFFICES ASSUME CountedTypeOK, CounterAccounts, AsleepOnZero,
                      AllAsleep, mpc = "accept"
               PROVE  queue = <<>>
    BY DEF NotAllAsleep
  <2>1. Subtracting = {}
    BY DEF AllAsleep, Subtracting
  <2>2. counter = 0
    BY DEF AsleepOnZero
  <2>3. Len(queue) = 0
    BY <2>1, <2>2, FS_EmptySet DEF CounterAccounts, CountedTypeOK
  <2> QED
    BY <2>3 DEF CountedTypeOK
<1> QED
  BY <1>1, TypeCorrect, CounterCorrect, AsleepOnZeroInvariant, PTL
=============================================================================
