-------------------------- MODULE SynchCallProofs ---------------------------
(***************************************************************************)
(* Proofs that the calls of synch1.0.1 are atomic, for any number of       *)
(* threads.  A step of a program either shows nothing of the object, or    *)
(* starts a call, returns from one, or applies the requests of some calls, *)
(* one after the other, with the results of the serial code: that is what  *)
(* Effect says, and it is enough for the abstract object (EffectIsAtomic). *)
(* This module has the steps of the lock-free programs, of those that      *)
(* combine or lock, and of the queues over two locks; SynchAtomicProofs    *)
(* has sim and simstack, and the theorems.                                 *)
(***************************************************************************)
EXTENDS SynchProofs, FiniteSetTheorems, WellFoundedInduction

(* The combiner's counter is never initialised; what is proved of ccuobject
   and huobject is proved for a build where it starts below the bound. *)
CounterBelow == \A k \in CounterStart : k \in Int /\ k < HelpBound

-----------------------------------------------------------------------------
(* What a step does to the object and the calls *)

(* The operations of a program, and the arguments its threads ask with. *)
Ops == IF prog \in Stacks THEN {"push", "pop"} ELSE IF prog \in Queues THEN {"enq", "deq"} ELSE {"fam"}
Args == UNION {{<<"arg", t, k>> : k \in 1 .. Load[prog][t]} : t \in Thread}

CallOK(t) ==
  /\ DOMAIN call[t] = {"st", "op", "arg", "ret"}
  /\ call[t].st \in {"idle", "asked", "done"}
  /\ call[t].st = "idle" <=> pc[t] = "idle"
  /\ runs[t] \in 0 .. Load[prog][t]
  /\ pc[t] # "idle" => /\ call[t].op \in Ops
                       /\ call[t].arg = <<"arg", t, runs[t] + 1>> /\ call[t].arg \in Args
CallsOK ==
  /\ prog \in Programs
  /\ DOMAIN pc = Thread /\ call = [t \in Thread |-> call[t]] /\ DOMAIN got = Thread /\ DOMAIN runs = Thread
  /\ \A t \in Thread : CallOK(t)
  /\ prog \in Stacks \cup Queues => obj \in Seq(Args)

Moves(t)   == \E from, to : from # "idle" /\ to # "idle" /\ Go(t, from, to) /\ UNCHANGED calls
Asks(t)    == \E to : to # "idle" /\ Call(t, to)
Serves(t, x) ==
  /\ \E from, to : from # "idle" /\ to # "idle" /\ Go(t, from, to)
  /\ call[x].st = "asked"
  /\ \E op \in Ops : (op = call[x].op \/ Exempt) /\ Perform(op, x, call[x].arg)
Returns(t) ==
  \E from, v :
    /\ from # "idle"
    /\ Return(t, from, v)
    /\ ~Exempt => call[t].st = "done" /\ (<<prog, call[t].op>> \notin WrongResult => v = call[t].ret)

(* A batch: the threads of s, in this order; u is what the object goes through. *)
Batch(s, u) ==
  /\ u[0] = obj
  /\ \A i \in 1 .. Len(s) : LET r == Object!Serial(u[i - 1], call[s[i]].op, call[s[i]].arg)
                            IN  /\ u[i] = r[1]
                                /\ call'[s[i]] = [call[s[i]] EXCEPT !.st = "done", !.ret = r[2]]
  /\ obj' = u[Len(s)]
  /\ call' = [x \in Thread |-> call'[x]]
  /\ \A x \in Thread : (\A i \in 1 .. Len(s) : s[i] # x) => call'[x] = call[x]
ServesAll(t, s) ==
  /\ \E from, to : from # "idle" /\ to # "idle" /\ Go(t, from, to)
  /\ s \in Seq(Thread) /\ (\A i, j \in 1 .. Len(s) : s[i] = s[j] => i = j)
  /\ \A i \in 1 .. Len(s) : call[s[i]].st = "asked"
  /\ \E u : Batch(s, u)
  /\ UNCHANGED <<got, runs>>
Effect(t) ==
  \/ Moves(t) \/ Asks(t) \/ (\E x \in Thread : Serves(t, x)) \/ Returns(t)
  \/ \E s : ServesAll(t, s)

absVars == <<IF Exempt THEN <<>> ELSE obj, IF Exempt THEN [t \in Thread |-> Object!Idle] ELSE call>>
AtomicStep == [Abstract!AtomicNext]_absVars
ResultStep == ~Exempt => \A t \in Thread :
  pc[t] # "idle" /\ pc'[t] = "idle" /\ <<prog, call[t].op>> \notin WrongResult
    => call[t].st = "done" /\ got'[t] = call[t].ret

(* The least element of a set of natural numbers. *)
LEMMA Least ==
  ASSUME NEW S, S \subseteq Nat, S # {}
  PROVE  \E i \in S : \A j \in S : i <= j
<1>1. PICK i \in S : \A j \in S : ~(<<j, i>> \in OpToRel(<, Nat))
  BY NatLessThanWellFounded, WFMin
<1>2. \A j \in S : i <= j
  <2> SUFFICES ASSUME NEW j \in S, ~(i <= j) PROVE FALSE
    OBVIOUS
  <2>1. <<j, i>> \in OpToRel(<, Nat)
    BY DEF OpToRel
  <2> QED
    BY <1>1, <2>1
<1> QED
  BY <1>2

-----------------------------------------------------------------------------
(* The atomic object *)

(* The serial object is the same seen through the refinement mapping. *)
LEMMA SerialIs == \A o, op, v : Abstract!Serial(o, op, v) = Object!Serial(o, op, v)
BY DEF Abstract!Serial, Object!Serial, Abstract!Ok, Object!Ok, Abstract!Empty, Object!Empty, Abstract!Count, Object!Count

(* The object and the calls after one more operation, that of thread x. *)
Then(b, x, op, v) ==
  LET r == Object!Serial(b.obj, op, v)
  IN  [obj |-> r[1], call |-> [b.call EXCEPT ![x].st = "done", ![x].ret = r[2]]]

(* What a batch comes to, one operation after the other. *)
LEMMA AfterIs ==
  ASSUME ~Exempt, NEW s, Len(s) \in Nat
  PROVE  \E u : /\ u[0] = [obj |-> obj, call |-> call]
                /\ \A i \in 1 .. Len(s) : u[i] = Then(u[i - 1], s[i], call[s[i]].op, call[s[i]].arg)
                /\ Abstract!After(s) = u[Len(s)]
<1> DEFINE O == IF Exempt THEN <<>> ELSE obj
           C == IF Exempt THEN [t \in Thread |-> Object!Idle] ELSE call
           More(b, x) == LET r == Abstract!Serial(b.obj, C[x].op, C[x].arg)
                         IN  [obj  |-> r[1],
                              call |-> [b.call EXCEPT ![x].st = "done", ![x].ret = r[2]]]
           F(n, u) == u = [i \in 0 .. n |-> IF i = 0 THEN [obj |-> O, call |-> C] ELSE More(u[i - 1], s[i])]
           U == CHOOSE u : F(Len(s), u)
<1>1. Abstract!After(s) = U[Len(s)]
  BY DEF Abstract!After
<1>2. O = obj /\ C = call /\ \A b, x : More(b, x) = Then(b, x, call[x].op, call[x].arg)
  BY SerialIs DEF Then
<1> HIDE DEF O, C, More
<1>3. \A n \in Nat : \E u : F(n, u)
  <2> SUFFICES ASSUME NEW n \in Nat, ~\E u : F(n, u) PROVE FALSE
    OBVIOUS
  <2> DEFINE Bad == {m \in Nat : ~\E u : F(m, u)}
  <2>1. PICK m \in Bad : \A k \in Bad : m <= k
    <3>1. n \in Bad
      OBVIOUS
    <3>2. Bad \subseteq Nat
      OBVIOUS
    <3> HIDE DEF Bad
    <3> QED
      BY <3>1, <3>2, Least
  <2>2. \A k \in Nat : k < m => \E u : F(k, u)
    <3> SUFFICES ASSUME NEW k \in Nat, k < m, ~\E u : F(k, u) PROVE FALSE
      OBVIOUS
    <3>1. k \in Bad /\ m \in Nat
      OBVIOUS
    <3> QED
      BY <2>1, <3>1
  <2>3. CASE m = 0
    <3> DEFINE w == [i \in 0..0 |-> [obj |-> O, call |-> C]]
    <3>1. F(0, w)
      OBVIOUS
    <3> QED
      BY <2>3, <3>1
  <2>4. CASE m # 0
    <3>1. m - 1 \in Nat /\ m - 1 < m
      BY <2>4
    <3>2. PICK v : F(m - 1, v)
      BY <2>2, <3>1
    <3> DEFINE w == [i \in 0 .. m |-> IF i = m THEN More(v[m - 1], s[m]) ELSE v[i]]
    <3>3. F(m, w)
      BY <3>1, <3>2, <2>4
    <3> QED
      BY <2>1, <3>3
  <2> QED
    BY <2>3, <2>4
<1>4. F(Len(s), U)
  BY <1>3
<1> HIDE DEF U
<1>5. /\ U[0] = [obj |-> O, call |-> C]
      /\ \A i \in 1 .. Len(s) : U[i] = More(U[i - 1], s[i])
  BY <1>4
<1> QED
  BY <1>1, <1>2, <1>5

(* A serial operation on a sequence of arguments leaves one. *)
LEMMA SerialKeeps ==
  ASSUME prog \in Stacks \cup Queues, NEW o \in Seq(Args), NEW op \in Ops, NEW v \in Args
  PROVE  Object!Serial(o, op, v)[1] \in Seq(Args)
<1>1. op \in {"push", "pop", "enq", "deq"}
  BY DEF Ops
<1> HIDE DEF Args
<1>2. CASE op = "push"
  <2>1. Object!Serial(o, op, v)[1] = <<v>> \o o
    BY <1>2 DEF Object!Serial
  <2> QED
    BY <2>1
<1>3. CASE op = "enq"
  BY <1>3 DEF Object!Serial
<1>4. CASE op \in {"pop", "deq"} /\ o = <<>>
  BY <1>4 DEF Object!Serial
<1>5. CASE op \in {"pop", "deq"} /\ o # <<>>
  BY <1>5 DEF Object!Serial
<1> QED
  BY <1>1, <1>2, <1>3, <1>4, <1>5

(* A step that takes effect as an operation does leaves every call in order. *)
LEMMA EffectKeepsCalls ==
  ASSUME CallsOK, NEW t \in Thread, Effect(t), prog' = prog
  PROVE  CallsOK'
<1> USE DEF Go
<1>1. /\ Ops' = Ops /\ Args' = Args /\ Exempt' = Exempt
      /\ prog \in Programs
      /\ DOMAIN pc = Thread /\ DOMAIN call = Thread /\ DOMAIN got = Thread /\ DOMAIN runs = Thread
      /\ \A x \in Thread : CallOK(x)
      /\ prog \in Stacks \cup Queues => obj \in Seq(Args)
  BY DEF CallsOK, Ops, Args, Exempt
<1>2. CASE Moves(t)
  BY <1>1, <1>2 DEF Moves, calls, CallsOK, CallOK
<1>3. CASE Asks(t)
  <2>1. PICK to : to # "idle" /\ Call(t, to)
    BY <1>3 DEF Asks
  <2>2. runs[t] \in Nat /\ runs[t] > 0 /\ Load[prog][t] \in Nat
    BY <1>1, <2>1, SynchProgramsAssumption DEF Call, CallOK
  <2>3. OpOf(runs[t]) \in Ops
    BY DEF OpOf, Ops, Stacks, Queues
  <2>4. <<"arg", t, runs[t]>> \in Args
    BY <1>1, <2>2 DEF Args, CallOK
  <2> DEFINE c == [Object!Idle EXCEPT !.st = "asked", !.op = OpOf(runs[t]), !.arg = <<"arg", t, runs[t]>>]
  <2>5. /\ obj' = obj /\ got' = got /\ runs' = [runs EXCEPT ![t] = @ - 1] /\ pc' = [pc EXCEPT ![t] = to]
        /\ call' = [call EXCEPT ![t] = c]
    BY <2>1 DEF Call
  <2>7. /\ DOMAIN c = {"st", "op", "arg", "ret"} /\ c.st = "asked" /\ c.op = OpOf(runs[t])
        /\ c.arg = <<"arg", t, runs[t]>>
    BY DEF Object!Idle
  <2> HIDE DEF Args, Ops, c
  <2>6. \A x \in Thread : CallOK(x)'
    <3> SUFFICES ASSUME NEW x \in Thread PROVE CallOK(x)'
      OBVIOUS
    <3>1. CASE x # t
      BY <1>1, <2>5, <3>1 DEF CallOK
    <3>2. CASE x = t
      BY <1>1, <2>1, <2>2, <2>3, <2>4, <2>5, <2>7, <3>2 DEF CallOK
    <3> QED
      BY <3>1, <3>2
  <2> QED
    BY <1>1, <2>5, <2>6 DEF CallsOK
<1>4. ASSUME NEW x \in Thread, Serves(t, x) PROVE CallsOK'
  <2>1. PICK op \in Ops : Perform(op, x, call[x].arg)
    BY <1>4 DEF Serves
  <2>2. pc[x] # "idle" /\ call[x].arg \in Args
    BY <1>1, <1>4 DEF Serves, CallOK
  <2>3. prog \in Stacks \cup Queues => obj' \in Seq(Args)
    BY <1>1, <2>1, <2>2, SerialKeeps DEF Perform
  <2>4. /\ \E to : to # "idle" /\ pc' = [pc EXCEPT ![t] = to] /\ pc[t] # "idle"
        /\ \E ret : call' = [call EXCEPT ![x].st = "done", ![x].ret = ret]
        /\ UNCHANGED <<got, runs>>
    BY <1>4, <2>1 DEF Serves, Perform
  <2>5. call[x].st = "asked"
    BY <1>4 DEF Serves
  <2> HIDE DEF Args, Ops
  <2>6. \A y \in Thread : CallOK(y)'
    BY <1>1, <2>2, <2>4, <2>5 DEF CallOK
  <2>7. /\ DOMAIN pc' = Thread /\ DOMAIN got' = Thread /\ DOMAIN runs' = Thread
        /\ call' = [y \in Thread |-> call'[y]]
    BY <1>1, <2>4
  <2> QED
    BY <1>1, <2>3, <2>6, <2>7 DEF CallsOK
<1>5. CASE Returns(t)
  <2>1. /\ pc[t] # "idle" /\ pc' = [pc EXCEPT ![t] = "idle"] /\ obj' = obj /\ runs' = runs
        /\ call' = [call EXCEPT ![t] = [st |-> "idle", op |-> "none", arg |-> Object!Ok, ret |-> Object!Ok]]
        /\ \E v : got' = [got EXCEPT ![t] = v]
    BY <1>5 DEF Returns, Return, Object!Idle
  <2> HIDE DEF Args, Ops
  <2> QED
    BY <1>1, <2>1 DEF CallsOK, CallOK
<1>6. ASSUME NEW s, ServesAll(t, s) PROVE CallsOK'
  <2>1. PICK u : Batch(s, u)
    BY <1>6 DEF ServesAll
  <2>2. \A i \in 1 .. Len(s) : s[i] \in Thread /\ pc[s[i]] # "idle" /\ call[s[i]].st = "asked"
    BY <1>1, <1>6 DEF ServesAll, CallOK
  <2>3. Len(s) \in Nat
    BY <1>6 DEF ServesAll
  <2>4. prog \in Stacks \cup Queues => obj' \in Seq(Args)
    <3> SUFFICES ASSUME prog \in Stacks \cup Queues PROVE obj' \in Seq(Args)
      OBVIOUS
    <3> HIDE DEF Args, Ops
    <3> DEFINE Bad == {i \in 0 .. Len(s) : u[i] \notin Seq(Args)}
    <3>9. /\ u[0] = obj /\ obj' = u[Len(s)]
          /\ \A i \in 1 .. Len(s) : u[i] = Object!Serial(u[i - 1], call[s[i]].op, call[s[i]].arg)[1]
      BY <2>1 DEF Batch
    <3>1. SUFFICES Bad = {}
      BY <2>3, <3>9
    <3>2. SUFFICES ASSUME Bad # {} PROVE FALSE
      OBVIOUS
    <3>3. PICK i \in Bad : \A j \in Bad : i <= j
      <4> Bad \subseteq Nat
        OBVIOUS
      <4> HIDE DEF Bad
      <4> QED
        BY <3>2, Least
    <3>4. \A j \in 0 .. Len(s) : j < i => u[j] \in Seq(Args)
      BY <2>3, <3>3
    <3>5. i # 0
      BY <1>1, <3>9
    <3>6. /\ u[i - 1] \in Seq(Args) /\ i \in 1 .. Len(s)
          /\ u[i] = Object!Serial(u[i - 1], call[s[i]].op, call[s[i]].arg)[1]
      BY <2>3, <3>4, <3>5, <3>9
    <3>7. call[s[i]].op \in Ops /\ call[s[i]].arg \in Args
      BY <1>1, <2>2, <3>6 DEF CallOK
    <3> QED
      BY <3>6, <3>7, SerialKeeps
  <2>5. \A x \in Thread : CallOK(x)'
    <3> SUFFICES ASSUME NEW x \in Thread PROVE CallOK(x)'
      OBVIOUS
    <3>1. PICK to : pc' = [pc EXCEPT ![t] = to] /\ to # "idle" /\ pc[t] # "idle"
      BY <1>6 DEF ServesAll
    <3>2. runs' = runs
      BY <1>6 DEF ServesAll
    <3> HIDE DEF Args, Ops
    <3>3. CASE \A i \in 1 .. Len(s) : s[i] # x
      BY <1>1, <2>1, <3>1, <3>2, <3>3 DEF Batch, CallOK
    <3>4. ASSUME NEW i \in 1 .. Len(s), s[i] = x PROVE CallOK(x)'
      <4>1. \E ret : call'[x] = [call[x] EXCEPT !.st = "done", !.ret = ret]
        <5> DEFINE r == Object!Serial(u[i - 1], call[s[i]].op, call[s[i]].arg)
        <5>1. call'[s[i]] = [call[s[i]] EXCEPT !.st = "done", !.ret = r[2]]
          BY <2>1 DEF Batch
        <5> HIDE DEF r
        <5> QED
          BY <3>4, <5>1
      <4> QED
        BY <1>1, <2>2, <3>1, <3>2, <3>4, <4>1 DEF CallOK
    <3> QED
      BY <3>3, <3>4
  <2>6. /\ DOMAIN pc' = Thread /\ DOMAIN got' = Thread /\ DOMAIN runs' = Thread
        /\ call' = [y \in Thread |-> call'[y]]
    BY <1>1, <1>6, <2>1 DEF Batch, ServesAll
  <2> QED
    BY <1>1, <2>4, <2>5, <2>6 DEF CallsOK
<1> QED
  BY <1>2, <1>3, <1>4, <1>5, <1>6 DEF Effect

(* A step that takes effect as an operation does hands over the result the
   operation had, or none. *)
LEMMA EffectReturns ==
  ASSUME CallsOK, NEW t \in Thread, Effect(t)
  PROVE  ResultStep
<1>1. DOMAIN pc = Thread /\ DOMAIN got = Thread
  BY DEF CallsOK
<1>2. CASE Returns(t)
  BY <1>1, <1>2 DEF Returns, Return, Go, ResultStep
<1>3. CASE ~Returns(t)
  BY <1>1, <1>3 DEF Effect, Moves, Asks, Call, Serves, ServesAll, Go, ResultStep
<1> QED
  BY <1>2, <1>3

(* Threads that were all asked, in any order without repetition, can be served. *)
LEMMA InOrders ==
  ASSUME NEW S, S \subseteq Thread, NEW s \in Seq(S), s # <<>>, \A i, j \in 1 .. Len(s) : s[i] = s[j] => i = j
  PROVE  s \in Abstract!Orders(S)
<1>1. IsFiniteSet(S) /\ Cardinality(S) \in Nat
  <2>1. IsFiniteSet(Thread)
    BY SynchAssumption, FS_Interval DEF Thread
  <2> QED
    BY <2>1, FS_Subset, FS_CardinalityType
<1>2. s \in [1 .. Len(s) -> S] /\ Len(s) \in Nat /\ Len(s) # 0
  OBVIOUS
<1>3. Len(s) <= Cardinality(S)
  <2> SUFFICES ASSUME Cardinality(S) < Len(s) PROVE FALSE
    BY <1>1, <1>2
  <2>1. IsFiniteSet(1 .. Len(s)) /\ Cardinality(1 .. Len(s)) = Len(s)
    BY <1>2, FS_Interval
  <2>2. \E i, j \in 1 .. Len(s) : i # j /\ s[i] = s[j]
    BY <1>1, <1>2, <2>1, FS_PigeonHole
  <2> QED
    BY <2>2
<1>4. DOMAIN s = 1 .. Len(s) /\ Len(s) \in 1 .. Cardinality(S)
  BY <1>1, <1>2, <1>3
<1>5. s \in UNION {[1 .. n -> S] : n \in 1 .. Cardinality(S)}
  BY <1>2, <1>4
<1>6. Abstract!Cardinality(S) = Cardinality(S)
  BY DEF Abstract!Cardinality, Cardinality
<1> QED
  BY <1>4, <1>5, <1>6 DEF Abstract!Orders

(* The batch as the steps of the atomic object add up to it. *)
LEMMA BatchIs ==
  ASSUME call = [x \in Thread |-> call[x]],
         NEW s \in Seq(Thread), \A i, j \in 1 .. Len(s) : s[i] = s[j] => i = j, NEW v, Batch(s, v),
         NEW u, u[0].obj = obj, u[0].call = call,
         \A i \in 1 .. Len(s) : u[i] = Then(u[i - 1], s[i], call[s[i]].op, call[s[i]].arg)
  PROVE  u[Len(s)].obj = obj' /\ u[Len(s)].call = call'
<1> DEFINE Q(i) == /\ u[i].obj = v[i]
                   /\ u[i].call = [y \in Thread |-> u[i].call[y]]
                   /\ \A j \in 1 .. Len(s) : u[i].call[s[j]] = IF j <= i THEN call'[s[j]] ELSE call[s[j]]
                   /\ \A x \in Thread : (\A j \in 1 .. Len(s) : s[j] # x) => u[i].call[x] = call[x]
<1>1. Len(s) \in Nat /\ \A i \in 1 .. Len(s) : s[i] \in Thread
  OBVIOUS
<1>2. ASSUME NEW i \in 1 .. Len(s), Q(i - 1) PROVE Q(i)
  <2> DEFINE r == Object!Serial(v[i - 1], call[s[i]].op, call[s[i]].arg)
  <2>1. i \in Nat /\ i - 1 \in Nat /\ ~(i <= i - 1) /\ s[i] \in Thread
    BY <1>1
  <2>2. u[i - 1].obj = v[i - 1] /\ DOMAIN u[i - 1].call = Thread
    BY <1>2
  <2>3. u[i - 1].call[s[i]] = call[s[i]]
    BY <1>2, <2>1
  <2>4. v[i] = r[1] /\ call'[s[i]] = [call[s[i]] EXCEPT !.st = "done", !.ret = r[2]]
    BY DEF Batch
  <2>5. /\ u[i].obj = r[1] /\ u[i].call = [y \in Thread |-> u[i].call[y]]
        /\ u[i].call[s[i]] = [call[s[i]] EXCEPT !.st = "done", !.ret = r[2]]
        /\ \A y \in Thread : y # s[i] => u[i].call[y] = u[i - 1].call[y]
    <3> DEFINE b == u[i - 1]
               x == s[i]
    <3>1. x \in Thread /\ b.obj = v[i - 1] /\ DOMAIN b.call = Thread /\ b.call[x] = call[x]
      BY <2>1, <2>2, <2>3
    <3>2. u[i] = Then(b, x, call[x].op, call[x].arg) /\ r = Object!Serial(v[i - 1], call[x].op, call[x].arg)
      OBVIOUS
    <3> HIDE DEF b, x, r
    <3>3. u[i].obj = r[1] /\ u[i].call = [b.call EXCEPT ![x].st = "done", ![x].ret = r[2]]
      BY <3>1, <3>2 DEF Then
    <3>4. /\ u[i].call = [y \in Thread |-> u[i].call[y]]
          /\ u[i].call[x] = [call[x] EXCEPT !.st = "done", !.ret = r[2]]
          /\ \A y \in Thread : y # x => u[i].call[y] = b.call[y]
      BY <3>1, <3>3
    <3> QED
      BY <3>3, <3>4 DEF b, x
  <2> HIDE DEF r
  <2>6. \A j \in 1 .. Len(s) : u[i].call[s[j]] = IF j <= i THEN call'[s[j]] ELSE call[s[j]]
    <3> SUFFICES ASSUME NEW j \in 1 .. Len(s)
                 PROVE  u[i].call[s[j]] = IF j <= i THEN call'[s[j]] ELSE call[s[j]]
      OBVIOUS
    <3>1. CASE j = i
      BY <2>1, <2>4, <2>5, <3>1
    <3>2. CASE j # i
      <4>1. s[j] # s[i] /\ s[j] \in Thread /\ (j <= i <=> j <= i - 1)
        BY <1>1, <2>1, <3>2
      <4> QED
        BY <1>2, <2>5, <4>1
    <3> QED
      BY <3>1, <3>2
  <2>7. \A x \in Thread : (\A j \in 1 .. Len(s) : s[j] # x) => u[i].call[x] = call[x]
    BY <1>2, <2>5
  <2> QED
    BY <2>4, <2>5, <2>6, <2>7
<1>3. Q(0)
  <2>1. v[0] = obj
    BY DEF Batch
  <2>2. \A j \in 1 .. Len(s) : ~(j <= 0)
    BY <1>1
  <2> QED
    BY <2>1, <2>2
<1>4. Q(Len(s))
  <2> DEFINE Bad == {i \in 0 .. Len(s) : ~Q(i)}
  <2> SUFFICES ASSUME Bad # {} PROVE FALSE
    BY <1>1
  <2> HIDE DEF Q
  <2>1. PICK i \in Bad : \A j \in Bad : i <= j
    <3>1. Bad \subseteq Nat
      BY <1>1
    <3> HIDE DEF Bad
    <3> QED
      BY <3>1, Least
  <2>2. i \in 1 .. Len(s)
    BY <1>1, <1>3
  <2>3. i - 1 \in 0 .. Len(s) /\ i - 1 < i
    BY <1>1, <2>2
  <2>4. Q(i - 1)
    BY <2>1, <2>3
  <2> QED
    BY <1>2, <2>2, <2>4
<1>5. obj' = v[Len(s)] /\ DOMAIN call' = Thread /\ call' = [x \in Thread |-> call'[x]]
      /\ \A x \in Thread : (\A j \in 1 .. Len(s) : s[j] # x) => call'[x] = call[x]
  BY DEF Batch
<1>6. \A x \in Thread : u[Len(s)].call[x] = call'[x]
  <2> SUFFICES ASSUME NEW x \in Thread PROVE u[Len(s)].call[x] = call'[x]
    OBVIOUS
  <2>1. CASE \A j \in 1 .. Len(s) : s[j] # x
    BY <1>4, <1>5, <2>1
  <2>2. ASSUME NEW j \in 1 .. Len(s), s[j] = x PROVE u[Len(s)].call[x] = call'[x]
    <3>1. j <= Len(s)
      BY <1>1
    <3> QED
      BY <1>4, <2>2, <3>1
  <2> QED
    BY <2>1, <2>2
<1> QED
  BY <1>4, <1>5, <1>6

(* The step the atomic object takes. *)
LEMMA EffectIsAtomic ==
  ASSUME CallsOK, NEW t \in Thread, Effect(t), prog' = prog
  PROVE  AtomicStep
<1>1. Exempt' = Exempt
  BY DEF Exempt
<1>2. CASE Exempt
  BY <1>1, <1>2 DEF AtomicStep, absVars
<1> SUFFICES ASSUME ~Exempt PROVE AtomicStep
  BY <1>2
<1> DEFINE O == IF Exempt THEN <<>> ELSE obj
           C == IF Exempt THEN [x \in Thread |-> Object!Idle] ELSE call
           A == {x \in Thread : C[x].st = "asked"}
<1>3. O = obj /\ C = call /\ O' = obj' /\ C' = call'
  BY <1>1
<1>4. \A x \in Thread : CallOK(x)
  BY DEF CallsOK
<1>5. DOMAIN call = Thread
  BY DEF CallsOK
<1>6. CASE Moves(t)
  BY <1>3, <1>6 DEF Moves, calls, AtomicStep, absVars
<1>7. CASE Asks(t)
  <2>1. call[t].st = "idle"
    BY <1>4, <1>7 DEF Asks, Call, Go, CallOK
  <2>2. obj' = obj /\ \E c : call' = [call EXCEPT ![t] = c] /\ c.st = "asked"
    <3> DEFINE c == [Object!Idle EXCEPT !.st = "asked", !.op = OpOf(runs[t]), !.arg = <<"arg", t, runs[t]>>]
    <3>1. obj' = obj /\ call' = [call EXCEPT ![t] = c]
      BY <1>7 DEF Asks, Call
    <3>2. c.st = "asked"
      BY DEF Object!Idle
    <3> HIDE DEF c
    <3> QED
      BY <3>1, <3>2
  <2>3. call'[t].st = "asked" /\ call' = [call EXCEPT ![t] = call'[t]]
    BY <1>5, <2>2
  <2>4. Abstract!Ask(t)
    BY <1>3, <2>1, <2>2, <2>3 DEF Abstract!Ask
  <2> QED
    BY <2>4 DEF AtomicStep, Abstract!AtomicNext
<1>8. ASSUME NEW x \in Thread, Serves(t, x) PROVE AtomicStep
  <2> DEFINE s == <<x>>
             r == Object!Serial(obj, call[x].op, call[x].arg)
  <2>1. call[x].st = "asked"
    BY <1>8 DEF Serves
  <2>2. obj' = r[1] /\ call' = [call EXCEPT ![x].st = "done", ![x].ret = r[2]]
    BY <1>8 DEF Serves, Perform
  <2>3. s \in Seq(A) /\ s # <<>> /\ A \subseteq Thread /\ Len(s) = 1 /\ s[1] = x
    BY <1>3, <2>1
  <2>4. PICK u : /\ u[0] = [obj |-> obj, call |-> call]
                 /\ \A i \in 1 .. Len(s) : u[i] = Then(u[i - 1], s[i], call[s[i]].op, call[s[i]].arg)
                 /\ Abstract!After(s) = u[Len(s)]
    BY <2>3, AfterIs
  <2>5. u[Len(s)] = Then([obj |-> obj, call |-> call], x, call[x].op, call[x].arg)
    BY <2>3, <2>4
  <2>6. Abstract!After(s).obj = obj' /\ Abstract!After(s).call = call'
    <3> DEFINE b == [obj |-> obj, call |-> call]
    <3>1. b.obj = obj /\ b.call = call
      OBVIOUS
    <3> HIDE DEF b
    <3>2. Then(b, x, call[x].op, call[x].arg).obj = obj' /\ Then(b, x, call[x].op, call[x].arg).call = call'
      BY <2>2, <3>1 DEF Then
    <3> QED
      BY <2>4, <2>5, <3>2 DEF b
  <2> HIDE DEF s, A
  <2>7. s \in Abstract!Orders(A)
    BY <2>3, InOrders
  <2>8. \A i \in DOMAIN s : C[s[i]].st = "asked"
    BY <1>3, <2>1, <2>3
  <2>9. Abstract!Apply(s)
    BY <1>3, <2>6, <2>8 DEF Abstract!Apply
  <2> QED
    BY <2>7, <2>9 DEF A, AtomicStep, Abstract!AtomicNext
<1>9. CASE Returns(t)
  <2>1. call[t].st = "done" /\ obj' = obj /\ call' = [call EXCEPT ![t] = Object!Idle]
    BY <1>9 DEF Returns, Return
  <2>2. Abstract!Idle = Object!Idle
    BY DEF Abstract!Idle, Object!Idle, Abstract!Ok, Object!Ok
  <2>3. Abstract!Answer(t)
    BY <1>3, <2>1, <2>2 DEF Abstract!Answer
  <2> QED
    BY <2>3 DEF AtomicStep, Abstract!AtomicNext
<1>10. ASSUME NEW s, ServesAll(t, s) PROVE AtomicStep
  <2>1. PICK v : Batch(s, v)
    BY <1>10 DEF ServesAll
  <2>2. /\ s \in Seq(Thread) /\ (\A i, j \in 1 .. Len(s) : s[i] = s[j] => i = j)
        /\ \A i \in 1 .. Len(s) : call[s[i]].st = "asked"
    BY <1>10 DEF ServesAll
  <2>3. /\ v[0] = obj /\ obj' = v[Len(s)]
        /\ DOMAIN call' = Thread /\ call' = [x \in DOMAIN call' |-> call'[x]]
        /\ \A x \in Thread : (\A i \in 1 .. Len(s) : s[i] # x) => call'[x] = call[x]
    BY <2>1 DEF Batch
  <2>4. CASE s = <<>>
    <3>1. obj' = obj /\ \A x \in Thread : call'[x] = call[x]
      BY <2>3, <2>4
    <3>2. call' = call
      <4>1. call = [x \in Thread |-> call[x]]
        BY DEF CallsOK
      <4> QED
        BY <2>3, <3>1, <4>1
    <3> QED
      BY <1>3, <3>1, <3>2 DEF AtomicStep, absVars
  <2>5. CASE s # <<>>
    <3>1. Len(s) \in Nat /\ Len(s) # 0 /\ DOMAIN s = 1 .. Len(s)
      BY <2>2, <2>5
    <3>2. PICK u : /\ u[0] = [obj |-> obj, call |-> call]
                   /\ \A i \in 1 .. Len(s) : u[i] = Then(u[i - 1], s[i], call[s[i]].op, call[s[i]].arg)
                   /\ Abstract!After(s) = u[Len(s)]
      BY <3>1, AfterIs
    <3>3. u[0].obj = obj /\ u[0].call = call /\ call = [y \in Thread |-> call[y]]
      BY <3>2 DEF CallsOK
    <3>6. u[Len(s)].obj = obj' /\ u[Len(s)].call = call'
      BY <2>1, <2>2, <3>2, <3>3, BatchIs
    <3>7. s \in Seq(A) /\ A \subseteq Thread
      BY <1>3, <2>2
    <3> HIDE DEF A
    <3>8. s \in Abstract!Orders(A)
      BY <2>2, <2>5, <3>7, InOrders
    <3>9. Abstract!Apply(s)
      BY <1>3, <2>2, <3>1, <3>2, <3>6 DEF Abstract!Apply
    <3> QED
      BY <3>8, <3>9 DEF A, AtomicStep, Abstract!AtomicNext
  <2> QED
    BY <2>4, <2>5
<1> QED
  BY <1>6, <1>7, <1>8, <1>9, <1>10 DEF Effect

-----------------------------------------------------------------------------
(* lfobject and lfstack *)

LockFreeInv ==
  /\ DOMAIN loc = Thread
  /\ \A t \in Thread :
       /\ DOMAIN loc[t] = {"old", "ret"}
       /\ pc[t] \in {"idle", "read", "swap", "return"}
       /\ pc[t] \in {"read", "swap"} => call[t].st = "asked"
       /\ pc[t] = "return" => call[t].st = "done" /\ loc[t].ret = call[t].ret

(* The harness is the same in every program. *)
LEMMA LockFreeHarness ==
  /\ \A t, to : Lf!Call(t, to) <=> Call(t, to)
  /\ \A t, from, to : Lf!Go(t, from, to) <=> Go(t, from, to)
  /\ \A op, x, v : Lf!Perform(op, x, v) <=> Perform(op, x, v)
  /\ \A op, x, v : Lf!Outcome(op, x, v) = Outcome(op, x, v)
  /\ \A o, op, v : Lf!Object!Serial(o, op, v) = Object!Serial(o, op, v)
  /\ \A t, from, v : Lf!Return(t, from, v) <=> Return(t, from, v)
<1>1. \A o, op, v : Lf!Object!Serial(o, op, v) = Object!Serial(o, op, v)
  BY DEF Lf!Object!Serial, Object!Serial, Lf!Object!Ok, Object!Ok, Lf!Object!Empty, Object!Empty,
         Lf!Object!Count, Object!Count
<1>2. Lf!Object!Idle = Object!Idle
  BY DEF Lf!Object!Idle, Object!Idle, Lf!Object!Ok, Object!Ok
<1>3. \A left : Lf!OpOf(left) = OpOf(left)
  BY DEF Lf!OpOf, OpOf, Lf!Stacks, Stacks, Lf!Queues, Queues
<1>4. \A t, from, to : Lf!Go(t, from, to) <=> Go(t, from, to)
  BY DEF Lf!Go, Go
<1>5. \A t, to : Lf!Call(t, to) <=> Call(t, to)
  BY <1>2, <1>3, <1>4 DEF Lf!Call, Call
<1>6. \A op, x, v : Lf!Perform(op, x, v) <=> Perform(op, x, v)
  BY <1>1 DEF Lf!Perform, Perform
<1>7. \A op, x, v : Lf!Outcome(op, x, v) = Outcome(op, x, v)
  BY <1>1 DEF Lf!Outcome, Outcome
<1>8. \A t, from, v : Lf!Return(t, from, v) <=> Return(t, from, v)
  BY <1>2, <1>4 DEF Lf!Return, Return
<1> QED
  BY <1>1, <1>4, <1>5, <1>6, <1>7, <1>8

(* The result comes from the state that was read, and the compare-and-swap
   takes effect on that state. *)
LEMMA LockFreeKeeps ==
  ASSUME prog \in {"lfobject", "lfstack"}, CallsOK, LockFreeInv,
         NEW t \in Thread, Lf!LockFreeStep(t), prog' = prog
  PROVE  Effect(t) /\ LockFreeInv'
<1>1. /\ DOMAIN loc = Thread /\ DOMAIN pc = Thread /\ DOMAIN call = Thread
      /\ \A x \in Thread :
           /\ DOMAIN loc[x] = {"old", "ret"}
           /\ pc[x] \in {"idle", "read", "swap", "return"}
           /\ pc[x] \in {"read", "swap"} => call[x].st = "asked"
           /\ pc[x] = "return" => call[x].st = "done" /\ loc[x].ret = call[x].ret
           /\ DOMAIN call[x] = {"st", "op", "arg", "ret"}
           /\ pc[x] # "idle" => call[x].op \in Ops
  BY DEF LockFreeInv, CallsOK, CallOK
<1>2. CASE Lf!LfCall(t)
  <2>1. Call(t, "read") /\ loc' = loc
    BY <1>2, LockFreeHarness DEF Lf!LfCall
  <2>2. Effect(t)
    BY <2>1 DEF Effect, Asks
  <2>3. LockFreeInv'
    BY <1>1, <2>1 DEF LockFreeInv, Call, Go, Object!Idle
  <2> QED
    BY <2>2, <2>3
<1>3. CASE Lf!LfRead(t) \/ Lf!LfSwapFails(t)
  <2>1. /\ \E from, to \in {"read", "swap"} : Go(t, from, to)
        /\ UNCHANGED calls
        /\ loc' = [loc EXCEPT ![t].old = obj] \/ loc' = loc
    BY <1>3, LockFreeHarness DEF Lf!LfRead, Lf!LfSwapFails, Lf!calls, calls
  <2>2. Effect(t)
    BY <2>1 DEF Effect, Moves
  <2>3. LockFreeInv'
    BY <1>1, <2>1 DEF LockFreeInv, Go, calls
  <2> QED
    BY <2>2, <2>3
<1>4. CASE Lf!LfPopEmpty(t) \/ Lf!LfSwap(t)
  <2> DEFINE r == Object!Serial(obj, call[t].op, call[t].arg)
  <2>3. /\ \E from \in {"read", "swap"} : Go(t, from, "return")
        /\ Perform(call[t].op, t, call[t].arg)
        /\ loc' = [loc EXCEPT ![t].ret = r[2]]
    <3>1. CASE Lf!LfPopEmpty(t)
      <4>1. call[t].op = "pop" /\ obj = <<>> /\ Go(t, "read", "return") /\ Perform("pop", t, call[t].arg)
            /\ loc' = [loc EXCEPT ![t].ret = Object!Empty]
        BY <3>1, LockFreeHarness DEF Lf!LfPopEmpty, Lf!Object!Empty, Object!Empty
      <4>2. r[2] = Object!Empty
        BY <4>1 DEF Object!Serial
      <4> QED
        BY <4>1, <4>2
    <3>2. CASE Lf!LfSwap(t)
      BY <3>2, LockFreeHarness DEF Lf!LfSwap
    <3> QED
      BY <1>4, <3>1, <3>2
  <2>4. Effect(t)
    BY <1>1, <2>3 DEF Effect, Serves, Go
  <2>5. call' = [call EXCEPT ![t].st = "done", ![t].ret = r[2]]
    BY <2>3 DEF Perform
  <2> HIDE DEF r
  <2>6. LockFreeInv'
    BY <1>1, <2>3, <2>5 DEF LockFreeInv, Go
  <2> QED
    BY <2>4, <2>6
<1>5. CASE Lf!LfReturn(t)
  <2>1. Return(t, "return", loc[t].ret) /\ loc' = loc
    BY <1>5, LockFreeHarness DEF Lf!LfReturn
  <2>2. Effect(t)
    BY <1>1, <2>1 DEF Effect, Returns, Return, Go
  <2>3. LockFreeInv'
    BY <1>1, <2>1 DEF LockFreeInv, Return, Go
  <2> QED
    BY <2>2, <2>3
<1> QED
  BY <1>2, <1>3, <1>4, <1>5 DEF Lf!LockFreeStep

-----------------------------------------------------------------------------
(* locksuobject and locksstack *)

LocksInv ==
  /\ DOMAIN loc = Thread
  /\ \A t \in Thread :
       /\ pc[t] \in LocksLabel
       /\ pc[t] \in {"lock", "wait", "critical"} => call[t].st = "asked"
       /\ pc[t] \in {"unlock", "return"} =>
            /\ call[t].st = "done"
            /\ <<prog, call[t].op>> \notin WrongResult => loc[t] = call[t].ret

(* The harness is the same in every program. *)
LEMMA LocksHarness ==
  /\ \A t, to : Clh!Call(t, to) <=> Call(t, to)
  /\ \A t, from, to : Clh!Go(t, from, to) <=> Go(t, from, to)
  /\ \A op, x, v : Clh!Perform(op, x, v) <=> Perform(op, x, v)
  /\ \A op, x, v : Clh!Outcome(op, x, v) = Outcome(op, x, v)
  /\ \A o, op, v : Clh!Object!Serial(o, op, v) = Object!Serial(o, op, v)
  /\ \A t, from, v : Clh!Return(t, from, v) <=> Return(t, from, v)
<1>1. \A o, op, v : Clh!Object!Serial(o, op, v) = Object!Serial(o, op, v)
  BY DEF Clh!Object!Serial, Object!Serial, Clh!Object!Ok, Object!Ok, Clh!Object!Empty, Object!Empty,
         Clh!Object!Count, Object!Count
<1>2. Clh!Object!Idle = Object!Idle
  BY DEF Clh!Object!Idle, Object!Idle, Clh!Object!Ok, Object!Ok
<1>3. \A left : Clh!OpOf(left) = OpOf(left)
  BY DEF Clh!OpOf, OpOf, Clh!Stacks, Stacks, Clh!Queues, Queues
<1>4. \A t, from, to : Clh!Go(t, from, to) <=> Go(t, from, to)
  BY DEF Clh!Go, Go
<1>5. \A t, to : Clh!Call(t, to) <=> Call(t, to)
  BY <1>2, <1>3, <1>4 DEF Clh!Call, Call
<1>6. \A op, x, v : Clh!Perform(op, x, v) <=> Perform(op, x, v)
  BY <1>1 DEF Clh!Perform, Perform
<1>7. \A op, x, v : Clh!Outcome(op, x, v) = Outcome(op, x, v)
  BY <1>1 DEF Clh!Outcome, Outcome
<1>8. \A t, from, v : Clh!Return(t, from, v) <=> Return(t, from, v)
  BY <1>2, <1>4 DEF Clh!Return, Return
<1> QED
  BY <1>1, <1>4, <1>5, <1>6, <1>7, <1>8


(* What the serial code computes is what the call is due, except where pop
   reads the node under the top. *)
LEMMA LocksServe ==
  ASSUME prog \in {"locksuobject", "locksstack"}, CallsOK, LocksInv,
         NEW t \in Thread, Clh!LocksStep(t), prog' = prog
  PROVE  Effect(t) /\ LocksInv'
<1>1. /\ DOMAIN loc = Thread /\ DOMAIN pc = Thread /\ DOMAIN call = Thread
      /\ \A x \in Thread :
           /\ pc[x] \in LocksLabel
           /\ pc[x] \in {"lock", "wait", "critical"} => call[x].st = "asked"
           /\ pc[x] \in {"unlock", "return"} =>
                /\ call[x].st = "done"
                /\ <<prog, call[x].op>> \notin WrongResult => loc[x] = call[x].ret
           /\ DOMAIN call[x] = {"st", "op", "arg", "ret"}
           /\ pc[x] # "idle" => call[x].op \in Ops
  BY DEF LocksInv, CallsOK, CallOK
<1>2. CASE Clh!LocksCall(t)
  <2>1. Call(t, "lock") /\ loc' = loc
    BY <1>2, LocksHarness DEF Clh!LocksCall
  <2>2. Effect(t)
    BY <2>1 DEF Effect, Asks
  <2>3. LocksInv'
    BY <1>1, <2>1 DEF LocksInv, LocksLabel, Call, Go, Object!Idle
  <2> QED
    BY <2>2, <2>3
<1>3. CASE Clh!ClhLock(t, "lock", "wait") \/ Clh!ClhSpin(t, "wait", "critical") \/ Clh!ClhUnlock(t, "unlock", "return")
  <2>1. /\ Go(t, "lock", "wait") \/ Go(t, "wait", "critical") \/ Go(t, "unlock", "return")
        /\ UNCHANGED calls /\ loc' = loc
    BY <1>3, LocksHarness DEF Clh!ClhLock, Clh!ClhSpin, Clh!ClhUnlock, Clh!calls, calls
  <2>2. Effect(t)
    BY <2>1 DEF Effect, Moves
  <2>3. LocksInv'
    BY <1>1, <2>1 DEF LocksInv, LocksLabel, Go, calls
  <2> QED
    BY <2>2, <2>3
<1>4. CASE Clh!Critical(t)
  <2> DEFINE r == Object!Serial(obj, call[t].op, call[t].arg)
             v == Outcome(call[t].op, t, call[t].arg)
  <2>1. Go(t, "critical", "unlock") /\ Perform(call[t].op, t, call[t].arg) /\ loc' = [loc EXCEPT ![t] = v]
    BY <1>4, LocksHarness DEF Clh!Critical
  <2>2. <<prog, call[t].op>> \notin WrongResult => v = r[2]
    BY DEF Outcome, WrongResult
  <2>3. Effect(t)
    BY <1>1, <2>1 DEF Effect, Serves, Go
  <2>4. call' = [call EXCEPT ![t].st = "done", ![t].ret = r[2]]
    BY <2>1 DEF Perform
  <2> HIDE DEF r, v
  <2>5. LocksInv'
    BY <1>1, <2>1, <2>2, <2>4 DEF LocksInv, LocksLabel, Go
  <2> QED
    BY <2>3, <2>5
<1>5. CASE Clh!LocksReturn(t)
  <2>1. Return(t, "return", loc[t]) /\ loc' = loc
    BY <1>5, LocksHarness DEF Clh!LocksReturn
  <2>2. Effect(t)
    BY <1>1, <2>1 DEF Effect, Returns, Return, Go
  <2>3. LocksInv'
    BY <1>1, <2>1 DEF LocksInv, LocksLabel, Return, Go
  <2> QED
    BY <2>2, <2>3
<1> QED
  BY <1>2, <1>3, <1>4, <1>5 DEF Clh!LocksStep

-----------------------------------------------------------------------------
(* dsmuobject and dsmstack *)

(* The node of a thread holds its request until it is completed, and its
   result from then on; a thread returns when its node is completed. *)
DSMRequest(t) ==
  pc[t] # "idle" =>
    IF Completed(Mine(t)) THEN call[t].st = "done" /\ mem[Mine(t)].ret = call[t].ret
    ELSE call[t].st = "asked" /\ mem[Mine(t)].pid = t /\ mem[Mine(t)].arg = call[t].arg
DSMServing(t) ==
  /\ pc[t] = "help" => ~Completed(loc[t].p) /\ (loc[t].p = Mine(t) \/ Completed(Mine(t)))
  /\ pc[t] \in {"release", "advance", "close", "return"} => Completed(Mine(t))
DSMCallInv == \A t \in Thread : DSMRequest(t) /\ DSMServing(t)

(* The harness is the same in every program. *)
LEMMA DSMHarness ==
  /\ \A t, to : DSM!Call(t, to) <=> Call(t, to)
  /\ \A t, from, to : DSM!Go(t, from, to) <=> Go(t, from, to)
  /\ \A op, x, v : DSM!Perform(op, x, v) <=> Perform(op, x, v)
  /\ \A op, x, v : DSM!Outcome(op, x, v) = Outcome(op, x, v)
  /\ \A o, op, v : DSM!Object!Serial(o, op, v) = Object!Serial(o, op, v)
  /\ \A t, from, v : DSM!Return(t, from, v) <=> Return(t, from, v)
<1>1. \A o, op, v : DSM!Object!Serial(o, op, v) = Object!Serial(o, op, v)
  BY DEF DSM!Object!Serial, Object!Serial, DSM!Object!Ok, Object!Ok, DSM!Object!Empty, Object!Empty,
         DSM!Object!Count, Object!Count
<1>2. DSM!Object!Idle = Object!Idle
  BY DEF DSM!Object!Idle, Object!Idle, DSM!Object!Ok, Object!Ok
<1>3. \A left : DSM!OpOf(left) = OpOf(left)
  BY DEF DSM!OpOf, OpOf, DSM!Stacks, Stacks, DSM!Queues, Queues
<1>4. \A t, from, to : DSM!Go(t, from, to) <=> Go(t, from, to)
  BY DEF DSM!Go, Go
<1>5. \A t, to : DSM!Call(t, to) <=> Call(t, to)
  BY <1>2, <1>3, <1>4 DEF DSM!Call, Call
<1>6. \A op, x, v : DSM!Perform(op, x, v) <=> Perform(op, x, v)
  BY <1>1 DEF DSM!Perform, Perform
<1>7. \A op, x, v : DSM!Outcome(op, x, v) = Outcome(op, x, v)
  BY <1>1 DEF DSM!Outcome, Outcome
<1>8. \A t, from, v : DSM!Return(t, from, v) <=> Return(t, from, v)
  BY <1>2, <1>4 DEF DSM!Return, Return
<1> QED
  BY <1>1, <1>4, <1>5, <1>6, <1>7, <1>8


(* A step that leaves the requests alone. *)
LEMMA DSMQuiet ==
  ASSUME prog \in DSMPrograms, prog' = prog, CallsOK, DSMInv, DSMCallInv, NEW t \in Thread,
         NEW from \in DSMLabel \ {"idle", "help"}, NEW to \in DSMLabel \ {"idle"}, Go(t, from, to), UNCHANGED calls,
         \A u \in Thread : Mine(u)' = Mine(u),
         \A n \in DSMNode : mem'[n].completed = mem[n].completed /\ mem'[n].ret = mem[n].ret
                            /\ mem'[n].arg = mem[n].arg /\ mem'[n].pid = mem[n].pid,
         \A u \in Thread \ {t} : loc'[u].p = loc[u].p,
         to = "help" => /\ loc'[t].p \in DSMNode /\ ~Completed(loc'[t].p)
                        /\ loc'[t].p = Mine(t) \/ Completed(Mine(t)),
         to \in {"release", "advance", "close", "return"} => Completed(Mine(t))
  PROVE  Effect(t) /\ DSMCallInv'
<1>1. Effect(t)
  BY DEF Effect, Moves
<1>2. DSMTypes /\ DOMAIN pc = Thread /\ \A u \in Thread : Mine(u) \in DSMNode
  BY DSMFrame, DSMNodes DEF DSMTypes
<1>3. call' = call /\ pc'[t] = to /\ (\A u \in Thread \ {t} : pc'[u] = pc[u]) /\ pc[t] # "idle"
  BY <1>2 DEF Go, calls
<1>4. \A u \in Thread : Completed(Mine(u))' <=> Completed(Mine(u))
  BY <1>2 DEF Completed
<1>5. \A u \in Thread : DSMRequest(u)'
  BY <1>2, <1>3, <1>4 DEF DSMCallInv, DSMRequest
<1>6. \A u \in Thread \ {t} : DSMServing(u)'
  <2> SUFFICES ASSUME NEW u \in Thread \ {t} PROVE DSMServing(u)'
    OBVIOUS
  <2>1. DSMServing(u) /\ Mine(u)' = Mine(u) /\ pc'[u] = pc[u] /\ loc'[u].p = loc[u].p
    BY <1>3 DEF DSMCallInv
  <2>2. pc[u] = "help" => loc[u].p \in DSMNode
    BY <1>2, DSMFrame DEF DSMTypes, DSMInside
  <2>3. pc[u] = "help" => (Completed(loc[u].p)' <=> Completed(loc[u].p))
    BY <2>1, <2>2 DEF Completed
  <2> QED
    BY <1>4, <2>1, <2>3 DEF DSMServing, Completed
<1>7. DSMServing(t)'
  <2>1. to = "help" => ~Completed(loc[t].p)'
    BY DEF Completed
  <2> QED
    BY <1>3, <1>4, <2>1 DEF DSMServing
<1> QED
  BY <1>1, <1>5, <1>6, <1>7 DEF DSMCallInv


(* The steps of the dsm programs that serve nobody: a node is linked, a thread
   waits, the combiner moves on or hands the lock over. *)
LEMMA DSMQuietly ==
  ASSUME prog \in DSMPrograms, prog' = prog, CallsOK, DSMInv, DSMCallInv, NEW t \in Thread,
         DSM!Link(t) \/ DSM!Spin(t) \/ DSM!Release(t) \/ DSM!Advance(t) \/ DSM!Close(t) \/ DSM!HandOver(t)
  PROVE  Effect(t) /\ DSMCallInv'
<1>1. DSMTypes /\ (\A u \in Thread : Mine(u) \in DSMNode) /\ DSMRequest(t) /\ DSMServing(t) /\ Null \notin DSMNode
  BY DSMFrame, DSMNodes DEF DSMCallInv
<1>2. UNCHANGED calls
  BY DEF DSM!Link, DSM!Spin, DSM!Release, DSM!Advance, DSM!Close, DSM!HandOver, DSM!calls, calls
<1>3. CASE DSM!Link(t) \/ DSM!Release(t) \/ DSM!Close(t) \/ DSM!HandOver(t)
  <2>1. PICK from, to \in {"link", "spin", "release", "advance", "close", "return"} :
          /\ Go(t, from, to)
          /\ to = "spin" \/ from \in {"release", "close"}
    BY <1>3, DSMHarness DEF DSM!Link, DSM!Release, DSM!Close, DSM!HandOver
  <2>2. loc' = loc
    BY <1>3 DEF DSM!Link, DSM!Release, DSM!Close, DSM!HandOver
  <2>3. \A n \in DSMNode : mem'[n].completed = mem[n].completed /\ mem'[n].ret = mem[n].ret
                           /\ mem'[n].arg = mem[n].arg /\ mem'[n].pid = mem[n].pid
    BY <1>1, <1>3 DEF DSM!Link, DSM!Release, DSM!Close, DSM!HandOver, DSMTypes
  <2>4. \A u \in Thread : Mine(u)' = Mine(u)
    BY <2>2 DEF Mine
  <2>5. to \in {"release", "advance", "close", "return"} => Completed(Mine(t))
    BY <1>1, <2>1 DEF Go, DSMServing
  <2>6. from \in DSMLabel \ {"idle", "help"} /\ to \in DSMLabel \ {"idle"} /\ to # "help"
    BY <2>1 DEF DSMLabel
  <2> QED
    BY <1>2, <2>1, <2>2, <2>3, <2>4, <2>5, <2>6, DSMQuiet
<1>4. CASE DSM!Spin(t)
  <2>1. /\ Go(t, "spin", IF Completed(Mine(t)) THEN "return" ELSE "help")
        /\ loc' = [loc EXCEPT ![t].p = Mine(t), ![t].counter = 0] /\ mem' = mem
    BY <1>4, DSMHarness DEF DSM!Spin, DSM!Mine, Mine, Completed
  <2>2. loc'[t].p = Mine(t) /\ (\A u \in Thread \ {t} : loc'[u].p = loc[u].p)
        /\ \A u \in Thread : loc'[u].toggle = loc[u].toggle
    BY <1>1, <2>1 DEF DSMTypes
  <2>3. \A u \in Thread : Mine(u)' = Mine(u)
    BY <2>2 DEF Mine
  <2>4. CASE Completed(Mine(t))
    <3>1. Go(t, "spin", "return") /\ "spin" \in DSMLabel \ {"idle", "help"} /\ "return" \in DSMLabel \ {"idle"}
      BY <2>1, <2>4 DEF DSMLabel
    <3> QED
      BY <1>2, <2>1, <2>2, <2>3, <2>4, <3>1, DSMQuiet
  <2>5. CASE ~Completed(Mine(t))
    <3>1. Go(t, "spin", "help") /\ "spin" \in DSMLabel \ {"idle", "help"} /\ "help" \in DSMLabel \ {"idle"}
      BY <2>1, <2>5 DEF DSMLabel
    <3> QED
      BY <1>1, <1>2, <2>1, <2>2, <2>3, <2>5, <3>1, DSMQuiet
  <2> QED
    BY <2>4, <2>5
<1>5. CASE DSM!Advance(t)
  <2> DEFINE n == mem[loc[t].p].next
  <2>1. /\ pc[t] = "advance" /\ mem' = mem
        /\ \/ Go(t, "advance", "close") /\ loc' = loc
           \/ Go(t, "advance", "help") /\ n # Null /\ loc' = [loc EXCEPT ![t].p = n]
    BY <1>5, DSMHarness DEF DSM!Advance, Go, DSM!Null, Null
  <2>2. Completed(Mine(t))
    BY <1>1, <2>1 DEF DSMServing
  <2>3. CASE Go(t, "advance", "close") /\ loc' = loc
    <3>1. "advance" \in DSMLabel \ {"idle", "help"} /\ "close" \in DSMLabel \ {"idle"}
      BY DEF DSMLabel
    <3>2. \A u \in Thread : Mine(u)' = Mine(u)
      BY <2>3 DEF Mine
    <3> QED
      BY <1>2, <2>1, <2>2, <2>3, <3>1, <3>2, DSMQuiet
  <2>4. CASE Go(t, "advance", "help") /\ n # Null /\ loc' = [loc EXCEPT ![t].p = n]
    <3>1. "advance" \in DSMLabel \ {"idle", "help"} /\ "help" \in DSMLabel \ {"idle"}
      BY DEF DSMLabel
    <3>2. loc'[t].p = n /\ (\A u \in Thread \ {t} : loc'[u].p = loc[u].p)
          /\ \A u \in Thread : loc'[u].toggle = loc[u].toggle
      BY <1>1, <2>4 DEF DSMTypes
    <3>3. \A u \in Thread : Mine(u)' = Mine(u)
      BY <3>2 DEF Mine
    <3>4. loc[t].p \in DSMNode /\ InLine(loc[t].p)
      BY <2>1, DSMFrame, ServedNode DEF DSMInside
    <3>5. n \in DSMNode
      BY <1>1, <2>4, <3>4 DEF DSMTypes
    <3>6. ~Completed(n)
      BY <3>4, <3>5, DSMFrame DEF LineOK, Waits
    <3> HIDE DEF n
    <3> QED
      BY <1>2, <2>1, <2>2, <2>4, <3>1, <3>2, <3>3, <3>5, <3>6, DSMQuiet
  <2> QED
    BY <2>1, <2>3, <2>4
<1> QED
  BY <1>3, <1>4, <1>5

(* The combiner serves the request of the node it is at, its owner's. *)
LEMMA DSMServe ==
  ASSUME prog \in DSMPrograms, prog' = prog, CallsOK, DSMInv, DSMCallInv, NEW t \in Thread, DSM!Help(t)
  PROVE  Effect(t) /\ DSMCallInv'
<1> DEFINE n == loc[t].p
<1>1. /\ DSMTypes /\ DOMAIN pc = Thread
      /\ \A u \in Thread : DSMRequest(u) /\ DSMServing(u) /\ Mine(u) \in DSMNode
      /\ \A u \in Thread : CallOK(u)
  BY DSMFrame, DSMNodes DEF DSMCallInv, DSMTypes, CallsOK
<1>2. /\ Go(t, "help", "release")
      /\ Perform(call[t].op, mem[n].pid, mem[n].arg)
      /\ mem' = [mem EXCEPT ![n].ret = Outcome(call[t].op, mem[n].pid, mem[n].arg), ![n].completed = TRUE]
      /\ loc' = [loc EXCEPT ![t].counter = @ + 1]
  BY DSMHarness DEF DSM!Help
<1>3. pc[t] = "help" /\ Critical(t) /\ n \in DSMNode
  BY <1>2, DSMFrame, ServedNode DEF DSMInside, Go
<1>4. PICK w \in Thread : n = Mine(w) /\ pc[w] # "idle"
  BY <1>3, DSMFrame DEF ServedOK
<1>5. call[w].st = "asked" /\ mem[n].pid = w /\ mem[n].arg = call[w].arg
  BY <1>1, <1>3, <1>4 DEF DSMServing, DSMRequest
<1> DEFINE r == Object!Serial(obj, call[t].op, call[w].arg)
<1>6. Outcome(call[t].op, w, call[w].arg) = r[2]
  BY DEF Outcome, DSMPrograms
<1>7. call' = [call EXCEPT ![w].st = "done", ![w].ret = r[2]]
  BY <1>2, <1>5 DEF Perform
<1>8. mem' = [mem EXCEPT ![n].ret = r[2], ![n].completed = TRUE]
  BY <1>2, <1>5, <1>6
<1>9. call[t].op \in Ops /\ call[w].op \in Ops /\ (call[t].op = call[w].op \/ Exempt)
  <2>1. call[t].op \in Ops /\ call[w].op \in Ops
    BY <1>1, <1>3, <1>4 DEF CallOK
  <2> QED
    BY <2>1 DEF Ops, DSMPrograms, Exempt, WrongOperation, Stacks, Queues
<1>10. Serves(t, w)
  BY <1>2, <1>5, <1>9 DEF Serves
<1> HIDE DEF r, n
<1>11. /\ \A m \in DSMNode \ {n} : mem'[m] = mem[m]
       /\ mem'[n].completed = TRUE /\ mem'[n].ret = r[2]
       /\ \A u \in Thread : loc'[u].p = loc[u].p /\ loc'[u].toggle = loc[u].toggle
       /\ call'[w].st = "done" /\ call'[w].ret = r[2] /\ \A u \in Thread \ {w} : call'[u] = call[u]
       /\ pc'[t] = "release" /\ \A u \in Thread \ {t} : pc'[u] = pc[u]
  <2>1. DOMAIN call = Thread /\ \A u \in Thread : DOMAIN call[u] = {"st", "op", "arg", "ret"}
    BY <1>1 DEF CallsOK, CallOK
  <2>2. call'[w].st = "done" /\ call'[w].ret = r[2] /\ \A u \in Thread \ {w} : call'[u] = call[u]
    BY <1>7, <2>1
  <2>3. pc'[t] = "release" /\ \A u \in Thread \ {t} : pc'[u] = pc[u]
    BY <1>1, <1>2 DEF Go
  <2> QED
    BY <1>1, <1>2, <1>3, <1>8, <2>2, <2>3 DEF DSMTypes
<1>12. \A u \in Thread : Mine(u)' = Mine(u)
  BY <1>11 DEF Mine
<1>13. \A u \in Thread \ {w} : Mine(u) # n
  BY <1>1, <1>4, DSMNodes
<1>14. \A u \in Thread : DSMRequest(u)'
  <2>1. DSMRequest(w)'
    BY <1>4, <1>11, <1>12 DEF DSMRequest, Completed
  <2>2. \A u \in Thread \ {w} : DSMRequest(u)'
    BY <1>1, <1>3, <1>11, <1>12, <1>13 DEF DSMRequest, Completed
  <2> QED
    BY <2>1, <2>2
<1>15. Completed(Mine(t))'
  <2>1. CASE t = w
    BY <1>4, <1>11, <1>12, <2>1 DEF Completed
  <2>2. CASE t # w
    <3>1. Completed(Mine(t)) /\ Mine(t) # n
      BY <1>1, <1>3, <1>13, <2>2 DEF DSMServing, n
    <3> QED
      BY <1>1, <1>11, <1>12, <3>1 DEF Completed
  <2> QED
    BY <2>1, <2>2
<1>16. \A u \in Thread : DSMServing(u)'
  <2>1. DSMServing(t)'
    BY <1>11, <1>15 DEF DSMServing
  <2>2. \A u \in Thread \ {t} : pc[u] \notin DSMInside
    BY <1>3, DSMFrame
  <2>3. \A u \in Thread \ {t} : DSMServing(u)'
    <3> SUFFICES ASSUME NEW u \in Thread \ {t} PROVE DSMServing(u)'
      OBVIOUS
    <3>1. pc'[u] = pc[u] /\ pc[u] \notin DSMInside /\ DSMServing(u) /\ Mine(u)' = Mine(u) /\ Mine(u) \in DSMNode
      BY <1>1, <1>11, <1>12, <2>2
    <3>2. pc[u] = "return" => Completed(Mine(u))'
      BY <1>11, <3>1 DEF DSMServing, Completed
    <3> QED
      BY <3>1, <3>2 DEF DSMServing, DSMInside
  <2> QED
    BY <2>1, <2>3
<1> QED
  BY <1>10, <1>14, <1>16 DEF Effect, DSMCallInv

(* A thread asks with its other node, and returns what its node holds. *)
LEMMA DSMAsks ==
  ASSUME prog \in DSMPrograms, prog' = prog, CallsOK, DSMInv, DSMCallInv, NEW t \in Thread, DSM!Announce(t)
  PROVE  Effect(t) /\ DSMCallInv'
<1>1. /\ DSMTypes /\ DOMAIN pc = Thread /\ DOMAIN call = Thread
      /\ \A u \in Thread : DSMRequest(u) /\ DSMServing(u) /\ Mine(u) \in DSMNode /\ Other(u) \in DSMNode
  BY DSMFrame, DSMNodes DEF DSMCallInv, DSMTypes, CallsOK
<1>2. PICK n \in DSMNode : n = Other(t)
  BY <1>1
<1>3. PICK to \in {"help", "link"} :
        /\ Call(t, to) /\ (to = "help" <=> root.Tail = Null)
        /\ mem' = [mem EXCEPT ![n] = [@ EXCEPT !.locked = TRUE, !.completed = FALSE, !.pid = t,
                                               !.next = Null, !.arg = call'[t].arg]]
        /\ loc' = [loc EXCEPT ![t] = [toggle |-> 1 - loc[t].toggle, counter |-> 0,
                                      p |-> IF root.Tail = Null THEN n ELSE root.Tail]]
  BY <1>2, DSMHarness DEF DSM!Announce, DSM!Null, Null, Other
<1>4. Effect(t)
  BY <1>3 DEF Effect, Asks
<1>5. call'[t].st = "asked" /\ (\A u \in Thread \ {t} : call'[u] = call[u])
      /\ pc[t] = "idle" /\ pc'[t] = to /\ \A u \in Thread \ {t} : pc'[u] = pc[u]
  BY <1>1, <1>3 DEF Call, Go, Object!Idle
<1>6. /\ \A m \in DSMNode \ {n} : mem'[m] = mem[m]
      /\ mem'[n].completed = FALSE /\ mem'[n].pid = t /\ mem'[n].arg = call'[t].arg
      /\ \A u \in Thread \ {t} : loc'[u] = loc[u]
      /\ loc'[t].toggle = 1 - loc[t].toggle /\ (to = "help" => loc'[t].p = n)
  BY <1>1, <1>3 DEF DSMTypes
<1>7. Mine(t)' = n /\ \A u \in Thread \ {t} : Mine(u)' = Mine(u) /\ Mine(u) # n
  BY <1>1, <1>2, <1>6, DSMNodes DEF Mine, Other
<1>8. \A u \in Thread : DSMRequest(u)'
  BY <1>1, <1>5, <1>6, <1>7 DEF DSMRequest, Completed
<1>9. DSMServing(t)'
  BY <1>5, <1>6, <1>7 DEF DSMServing, Completed
<1>10. \A u \in Thread \ {t} : DSMServing(u)'
  <2> SUFFICES ASSUME NEW u \in Thread \ {t} PROVE DSMServing(u)'
    OBVIOUS
  <2>1. pc'[u] = pc[u] /\ loc'[u] = loc[u] /\ Mine(u)' = Mine(u) /\ Mine(u) # n /\ mem'[Mine(u)] = mem[Mine(u)]
        /\ DSMServing(u)
    BY <1>1, <1>5, <1>6, <1>7
  <2>2. pc[u] = "help" => mem'[loc[u].p] = mem[loc[u].p]
    <3> SUFFICES ASSUME pc[u] = "help" PROVE loc[u].p \in DSMNode /\ loc[u].p # n
      BY <1>6
    <3>1. Critical(u)
      BY DSMFrame DEF DSMInside
    <3>2. PICK w \in Thread : loc[u].p = Mine(w)
      BY DSMFrame DEF ServedOK
    <3> QED
      BY <1>1, <1>2, <3>2, DSMNodes
  <2> QED
    BY <2>1, <2>2 DEF DSMServing, Completed
<1> QED
  BY <1>4, <1>8, <1>9, <1>10 DEF DSMCallInv

(* A thread of the dsm programs takes its result out of its own node. *)
LEMMA DSMAnswers ==
  ASSUME prog \in DSMPrograms, prog' = prog, CallsOK, DSMInv, DSMCallInv, NEW t \in Thread, DSM!ReturnResult(t)
  PROVE  Effect(t) /\ DSMCallInv'
<1>1. /\ DSMTypes /\ DOMAIN pc = Thread /\ DOMAIN call = Thread
      /\ \A u \in Thread : DSMRequest(u) /\ DSMServing(u) /\ Mine(u) \in DSMNode
  BY DSMFrame, DSMNodes DEF DSMCallInv, DSMTypes, CallsOK
<1>2. /\ Return(t, "return", mem[Mine(t)].ret)
      /\ loc' = [loc EXCEPT ![t].p = Null, ![t].counter = 0] /\ mem' = mem
  BY DSMHarness DEF DSM!ReturnResult, DSM!Mine, Mine, DSM!Null, Null
<1>3. pc[t] = "return" /\ pc'[t] = "idle" /\ (\A u \in Thread \ {t} : pc'[u] = pc[u] /\ call'[u] = call[u])
  BY <1>1, <1>2 DEF Return, Go
<1>4. call[t].st = "done" /\ mem[Mine(t)].ret = call[t].ret
  BY <1>1, <1>3 DEF DSMServing, DSMRequest
<1>5. Effect(t)
  BY <1>2, <1>4 DEF Effect, Returns
<1>6. \A u \in Thread : loc'[u].toggle = loc[u].toggle /\ (u # t => loc'[u] = loc[u])
  BY <1>1, <1>2 DEF DSMTypes
<1>7. \A u \in Thread : Mine(u)' = Mine(u)
  BY <1>6 DEF Mine
<1>8. \A u \in Thread : DSMRequest(u)' /\ DSMServing(u)'
  <2>1. DSMRequest(t)' /\ DSMServing(t)'
    BY <1>3 DEF DSMRequest, DSMServing
  <2>2. \A u \in Thread \ {t} : Completed(Mine(u))' = Completed(Mine(u)) /\ Completed(loc[u].p)' = Completed(loc[u].p)
    BY <1>2, <1>6, <1>7 DEF Completed
  <2>3. ASSUME NEW u \in Thread \ {t} PROVE DSMRequest(u)' /\ DSMServing(u)'
    <3>1. pc'[u] = pc[u] /\ call'[u] = call[u] /\ loc'[u].p = loc[u].p /\ mem' = mem /\ Mine(u)' = Mine(u)
      BY <1>2, <1>3, <1>6, <1>7
    <3>2. (Completed(Mine(u))' <=> Completed(Mine(u))) /\ (Completed(loc[u].p)' <=> Completed(loc[u].p))
      BY <3>1 DEF Completed
    <3>3. DSMRequest(u)'
      BY <1>1, <3>1, <3>2 DEF DSMRequest
    <3>4. DSMServing(u)'
      BY <1>1, <3>1, <3>2 DEF DSMServing
    <3> QED
      BY <3>3, <3>4
  <2> QED
    BY <2>1, <2>3
<1> QED
  BY <1>5, <1>8 DEF DSMCallInv

(* Every step of dsmuobject and dsmstack. *)
LEMMA DSMServes ==
  ASSUME prog \in DSMPrograms, prog' = prog, CallsOK, DSMInv, DSMCallInv, NEW t \in Thread, DSM!DSMStep(t)
  PROVE  Effect(t) /\ DSMCallInv'
BY DSMQuietly, DSMServe, DSMAsks, DSMAnswers DEF DSM!DSMStep

-----------------------------------------------------------------------------
(* ccuobject, ccstack, huobject and hstack *)

(* The node of a thread holds its request until it is completed, and its
   result from then on. In ccstack.h a combiner may come before the request is
   written, so there only the thread is known that the node is served for. *)
CCRequest(t) ==
  pc[t] # "idle" =>
    IF Completed(cur(t))
      THEN prog # "ccstack" => call[t].st = "done" /\ mem[cur(t)].arg_ret = call[t].ret
      ELSE /\ call[t].st = "asked" /\ mem[cur(t)].owner = t
           /\ prog # "ccstack" /\ pc[t] # "link1" => mem[cur(t)].arg_ret = call[t].arg

(* A node is linked when its request is written; a combiner starts with its own
   request, and serves it. *)
CCServing(t) ==
  prog # "ccstack" =>
    /\ pc[t] \in {"link1", "link2"} => ~Completed(cur(t)) /\ mem[cur(t)].next = Null
    /\ pc[t] \in {"spin", "lock", "wait", "combine", "release"} => mem[cur(t)].next # Null
    /\ pc[t] \in {"lock", "wait", "combine"} =>
         Completed(cur(t)) \/ (loc[t].p = cur(t) /\ loc[t].counter < HelpBound)
    /\ pc[t] \in {"release", "unlock", "return"} => Completed(cur(t))
CCCallInv == \A t \in Thread : CCRequest(t) /\ CCServing(t)

(* The harness is the same in every program. *)
LEMMA CCHarness ==
  /\ \A t, to : CC!Call(t, to) <=> Call(t, to)
  /\ \A t, from, to : CC!Go(t, from, to) <=> Go(t, from, to)
  /\ \A op, x, v : CC!Perform(op, x, v) <=> Perform(op, x, v)
  /\ \A op, x, v : CC!Outcome(op, x, v) = Outcome(op, x, v)
  /\ \A o, op, v : CC!Object!Serial(o, op, v) = Object!Serial(o, op, v)
  /\ \A t, from, v : CC!Return(t, from, v) <=> Return(t, from, v)
<1>1. \A o, op, v : CC!Object!Serial(o, op, v) = Object!Serial(o, op, v)
  BY DEF CC!Object!Serial, Object!Serial, CC!Object!Ok, Object!Ok, CC!Object!Empty, Object!Empty,
         CC!Object!Count, Object!Count
<1>2. CC!Object!Idle = Object!Idle
  BY DEF CC!Object!Idle, Object!Idle, CC!Object!Ok, Object!Ok
<1>3. \A left : CC!OpOf(left) = OpOf(left)
  BY DEF CC!OpOf, OpOf, CC!Stacks, Stacks, CC!Queues, Queues
<1>4. \A t, from, to : CC!Go(t, from, to) <=> Go(t, from, to)
  BY DEF CC!Go, Go
<1>5. \A t, to : CC!Call(t, to) <=> Call(t, to)
  BY <1>2, <1>3, <1>4 DEF CC!Call, Call
<1>6. \A op, x, v : CC!Perform(op, x, v) <=> Perform(op, x, v)
  BY <1>1 DEF CC!Perform, Perform
<1>7. \A op, x, v : CC!Outcome(op, x, v) = Outcome(op, x, v)
  BY <1>1 DEF CC!Outcome, Outcome
<1>8. \A t, from, v : CC!Return(t, from, v) <=> Return(t, from, v)
  BY <1>2, <1>4 DEF CC!Return, Return
<1> QED
  BY <1>1, <1>4, <1>5, <1>6, <1>7, <1>8

(* The harness is the same in every program. *)
LEMMA CCStackHarness ==
  /\ \A t, to : CCS!Call(t, to) <=> Call(t, to)
  /\ \A t, from, to : CCS!Go(t, from, to) <=> Go(t, from, to)
  /\ \A op, x, v : CCS!Perform(op, x, v) <=> Perform(op, x, v)
  /\ \A op, x, v : CCS!Outcome(op, x, v) = Outcome(op, x, v)
  /\ \A o, op, v : CCS!Object!Serial(o, op, v) = Object!Serial(o, op, v)
  /\ \A t, from, v : CCS!Return(t, from, v) <=> Return(t, from, v)
<1>1. \A o, op, v : CCS!Object!Serial(o, op, v) = Object!Serial(o, op, v)
  BY DEF CCS!Object!Serial, Object!Serial, CCS!Object!Ok, Object!Ok, CCS!Object!Empty, Object!Empty,
         CCS!Object!Count, Object!Count
<1>2. CCS!Object!Idle = Object!Idle
  BY DEF CCS!Object!Idle, Object!Idle, CCS!Object!Ok, Object!Ok
<1>3. \A left : CCS!OpOf(left) = OpOf(left)
  BY DEF CCS!OpOf, OpOf, CCS!Stacks, Stacks, CCS!Queues, Queues
<1>4. \A t, from, to : CCS!Go(t, from, to) <=> Go(t, from, to)
  BY DEF CCS!Go, Go
<1>5. \A t, to : CCS!Call(t, to) <=> Call(t, to)
  BY <1>2, <1>3, <1>4 DEF CCS!Call, Call
<1>6. \A op, x, v : CCS!Perform(op, x, v) <=> Perform(op, x, v)
  BY <1>1 DEF CCS!Perform, Perform
<1>7. \A op, x, v : CCS!Outcome(op, x, v) = Outcome(op, x, v)
  BY <1>1 DEF CCS!Outcome, Outcome
<1>8. \A t, from, v : CCS!Return(t, from, v) <=> Return(t, from, v)
  BY <1>2, <1>4 DEF CCS!Return, Return
<1> QED
  BY <1>1, <1>4, <1>5, <1>6, <1>7, <1>8

(* The harness is the same in every program. *)
LEMMA HSynchHarness ==
  /\ \A t, to : H!Call(t, to) <=> Call(t, to)
  /\ \A t, from, to : H!Go(t, from, to) <=> Go(t, from, to)
  /\ \A op, x, v : H!Perform(op, x, v) <=> Perform(op, x, v)
  /\ \A op, x, v : H!Outcome(op, x, v) = Outcome(op, x, v)
  /\ \A o, op, v : H!Object!Serial(o, op, v) = Object!Serial(o, op, v)
  /\ \A t, from, v : H!Return(t, from, v) <=> Return(t, from, v)
<1>1. \A o, op, v : H!Object!Serial(o, op, v) = Object!Serial(o, op, v)
  BY DEF H!Object!Serial, Object!Serial, H!Object!Ok, Object!Ok, H!Object!Empty, Object!Empty,
         H!Object!Count, Object!Count
<1>2. H!Object!Idle = Object!Idle
  BY DEF H!Object!Idle, Object!Idle, H!Object!Ok, Object!Ok
<1>3. \A left : H!OpOf(left) = OpOf(left)
  BY DEF H!OpOf, OpOf, H!Stacks, Stacks, H!Queues, Queues
<1>4. \A t, from, to : H!Go(t, from, to) <=> Go(t, from, to)
  BY DEF H!Go, Go
<1>5. \A t, to : H!Call(t, to) <=> Call(t, to)
  BY <1>2, <1>3, <1>4 DEF H!Call, Call
<1>6. \A op, x, v : H!Perform(op, x, v) <=> Perform(op, x, v)
  BY <1>1 DEF H!Perform, Perform
<1>7. \A op, x, v : H!Outcome(op, x, v) = Outcome(op, x, v)
  BY <1>1 DEF H!Outcome, Outcome
<1>8. \A t, from, v : H!Return(t, from, v) <=> Return(t, from, v)
  BY <1>2, <1>4 DEF H!Return, Return
<1> QED
  BY <1>1, <1>4, <1>5, <1>6, <1>7, <1>8

(* A step that serves nobody, and leaves the nodes of the others alone. *)
LEMMA CCQuiet ==
  ASSUME prog \in CCPrograms, prog' = prog, CallsOK, CCInv, CCCallInv, NEW t \in Thread,
         NEW from \in CCLabel \ {"idle"}, NEW to \in CCLabel \ {"idle"}, Go(t, from, to), UNCHANGED calls,
         \A u \in Thread \ {t} : loc'[u] = loc[u],
         \A n \in CCNode \ {cur(t)} : mem'[n].completed = mem[n].completed /\ mem'[n].arg_ret = mem[n].arg_ret
                                      /\ mem'[n].owner = mem[n].owner /\ mem'[n].next = mem[n].next,
         CCRequest(t)', CCServing(t)'
  PROVE  Effect(t) /\ CCCallInv'
<1>1. Effect(t)
  BY DEF Effect, Moves
<1>2. DOMAIN pc = Thread
  BY DEF CallsOK
<1>3. call' = call /\ (\A u \in Thread \ {t} : pc'[u] = pc[u]) /\ pc[t] # "idle"
  BY <1>2 DEF Go, calls
<1>4. ASSUME NEW u \in Thread \ {t}, pc[u] # "idle" PROVE CCRequest(u)' /\ CCServing(u)'
  <2>1. CCRequest(u) /\ CCServing(u)
    BY DEF CCCallInv
  <2>2. cur(u) \in CCNode \ {cur(t)} /\ cur(u)' = cur(u) /\ loc'[u] = loc[u] /\ pc'[u] = pc[u] /\ call'[u] = call[u]
    BY <1>3, <1>4, CCCur DEF cur
  <2>3. /\ Completed(cur(u))' <=> Completed(cur(u))
        /\ mem'[cur(u)].arg_ret = mem[cur(u)].arg_ret /\ mem'[cur(u)].owner = mem[cur(u)].owner
        /\ mem'[cur(u)].next = mem[cur(u)].next
    BY <2>2 DEF Completed
  <2>4. CCRequest(u)'
    BY <2>1, <2>2, <2>3 DEF CCRequest
  <2>5. CCServing(u)'
    BY <2>1, <2>2, <2>3 DEF CCServing
  <2> QED
    BY <2>4, <2>5
<1>5. ASSUME NEW u \in Thread \ {t}, pc[u] = "idle" PROVE CCRequest(u)' /\ CCServing(u)'
  BY <1>3, <1>5 DEF CCRequest, CCServing
<1> QED
  BY <1>1, <1>4, <1>5 DEF CCCallInv

(* A thread writes its request and links its node, in this order in ccsynch.h. *)
LEMMA CCWritten ==
  ASSUME prog \in CCPrograms, prog' = prog, CallsOK, CCInv, CCCallInv, NEW t \in Thread,
         \/ prog = "ccuobject" /\ (CC!WriteRequest(t, "link1", "link2", call[t].arg) \/ CC!LinkNode(t, "link2", "spin"))
         \/ prog \in HPrograms /\ (H!WriteRequest(t, "link1", "link2", call[t].arg) \/ H!LinkNode(t, "link2", "spin"))
         \/ prog = "ccstack" /\ (CCS!LinkNode(t, "link1", "link2") \/ CCS!WriteRequest(t, "link2", "spin", <<call[t].op>>))
  PROVE  Effect(t) /\ CCCallInv'
<1>1. /\ CCTypes /\ ChainOK /\ CCRequest(t) /\ CCServing(t) /\ Null \notin CCNode /\ DOMAIN pc = Thread
  BY CCFrame DEF CCCallInv, CallsOK
<1>2. /\ UNCHANGED calls /\ loc' = loc
      /\ \/ Go(t, "link1", "link2") /\ mem' = [mem EXCEPT ![cur(t)].arg_ret = call[t].arg] /\ prog # "ccstack"
         \/ Go(t, "link2", "spin") /\ mem' = [mem EXCEPT ![cur(t)].next = loc[t].mine]
         \/ Go(t, "link1", "link2") /\ mem' = [mem EXCEPT ![cur(t)].next = loc[t].mine] /\ prog = "ccstack"
         \/ Go(t, "link2", "spin") /\ mem' = [mem EXCEPT ![cur(t)].arg_ret = <<call[t].op>>] /\ prog = "ccstack"
  <2>1. CASE prog = "ccuobject"
    BY <2>1, CCHarness DEF CC!WriteRequest, CC!LinkNode, CC!calls, calls, cur, HPrograms
  <2>2. CASE prog \in HPrograms
    BY <2>2, HSynchHarness DEF H!WriteRequest, H!LinkNode, H!calls, calls, cur, HPrograms
  <2>3. CASE prog = "ccstack"
    BY <2>3, CCStackHarness DEF CCS!WriteRequest, CCS!LinkNode, CCS!calls, calls, cur, HPrograms
  <2> QED
    BY <2>1, <2>2, <2>3 DEF CCPrograms
<1>3. PICK from \in {"link1", "link2"}, to \in {"link2", "spin"} :
        Go(t, from, to) /\ (from = "link1" <=> to = "link2")
  BY <1>2
<1>4. pc[t] = from /\ pc'[t] = to /\ call' = call /\ cur(t)' = cur(t) /\ cur(t) \in CCNode
  BY <1>1, <1>2, <1>3, CCCur DEF Go, calls, cur
<1>5. /\ \A n \in CCNode \ {cur(t)} : mem'[n] = mem[n]
      /\ mem'[cur(t)].completed = mem[cur(t)].completed /\ mem'[cur(t)].owner = mem[cur(t)].owner
      /\ Completed(cur(t))' <=> Completed(cur(t))
  BY <1>1, <1>2, <1>4 DEF CCTypes, Completed
<1>6. prog # "ccstack" => /\ from = "link1" => mem'[cur(t)].arg_ret = call[t].arg /\ mem'[cur(t)].next = mem[cur(t)].next
                          /\ from = "link2" => mem'[cur(t)].next = loc[t].mine /\ mem'[cur(t)].arg_ret = mem[cur(t)].arg_ret
  BY <1>1, <1>2, <1>4 DEF CCTypes, Go
<1>7. prog # "ccstack" /\ from = "link2" => loc[t].mine # Null
  BY <1>1, <1>4, CCCur, CCFrame DEF ChainOK, Unserved, Queued, CCServing
<1>8. CCRequest(t)'
  BY <1>1, <1>3, <1>4, <1>5, <1>6 DEF CCRequest, CCServing
<1>9. CCServing(t)'
  BY <1>1, <1>3, <1>4, <1>5, <1>6, <1>7 DEF CCServing
<1>10. from \in CCLabel \ {"idle"} /\ to \in CCLabel \ {"idle"}
  BY DEF CCLabel
<1> QED
  BY <1>2, <1>3, <1>5, <1>8, <1>9, <1>10, CCQuiet

(* A thread stops spinning, a combiner goes on or hands over, and one of a
   cluster takes the lock before and gives it back after. *)
LEMMA CCPasses ==
  ASSUME CounterBelow, prog \in CCPrograms, prog' = prog, CallsOK, CCInv, CCCallInv, NEW t \in Thread,
         \/ prog = "ccuobject" /\ (CC!Spin(t, "combine") \/ CC!Release(t) \/ CC!HandOver(t, "return"))
         \/ prog \in HPrograms /\ (H!Spin(t, "lock") \/ H!Release(t) \/ H!HandOver(t, "unlock"))
         \/ prog \in HPrograms /\ (\/ H!ClhLock(t, "lock", "wait") \/ H!ClhSpin(t, "wait", "combine")
                                   \/ H!ClhUnlock(t, "unlock", "return"))
         \/ prog = "ccstack" /\ (CCS!Spin(t, "combine") \/ CCS!Unlock(t) \/ CCS!Advance(t) \/ CCS!HandOver(t, "return"))
  PROVE  Effect(t) /\ CCCallInv'
<1>1. /\ CCTypes /\ CCRequest(t) /\ CCServing(t) /\ Null \notin CCNode /\ DOMAIN pc = Thread
  BY CCFrame DEF CCCallInv, CallsOK
<1>2. /\ UNCHANGED calls
      /\ \/ /\ \E turn \in {"lock", "combine"} : Go(t, "spin", IF Completed(cur(t)) THEN "return" ELSE turn)
            /\ mem' = mem
            /\ Completed(cur(t)) => loc' = loc
            /\ ~Completed(cur(t)) => \E k \in CounterStart : loc' = [loc EXCEPT ![t].p = cur(t), ![t].counter = k]
         \/ /\ Go(t, "release", "combine") \/ (Go(t, "release", "advance") /\ prog = "ccstack")
            /\ mem' = [mem EXCEPT ![loc[t].p].locked = FALSE]
            /\ loc' = loc \/ loc' = [loc EXCEPT ![t].p = loc[t].next]
         \/ Go(t, "advance", "combine") /\ prog = "ccstack" /\ mem' = mem /\ \E n : loc' = [loc EXCEPT ![t].p = n]
         \/ /\ Go(t, "combine", "return") \/ Go(t, "combine", "unlock")
            /\ mem[loc[t].p].next = Null \/ ~(loc[t].counter < HelpBound)
            /\ mem' = [mem EXCEPT ![loc[t].p].locked = FALSE] /\ loc' = loc
         \/ /\ Go(t, "lock", "wait") \/ Go(t, "wait", "combine") \/ Go(t, "unlock", "return")
            /\ mem' = mem /\ loc' = loc
  <2>1. CASE CC!Spin(t, "combine") \/ CCS!Spin(t, "combine")
    BY <2>1, CCHarness, CCStackHarness DEF CC!Spin, CCS!Spin, CC!calls, CCS!calls, calls, cur, Completed
  <2>2. CASE H!Spin(t, "lock")
    BY <2>2, HSynchHarness DEF H!Spin, H!calls, calls, cur, Completed
  <2>3. CASE CC!Release(t) \/ H!Release(t) \/ (prog = "ccstack" /\ CCS!Unlock(t))
    BY <2>3, CCHarness, CCStackHarness, HSynchHarness DEF CC!Release, H!Release, CCS!Unlock, CC!calls, H!calls, CCS!calls, calls
  <2>4. CASE prog = "ccstack" /\ CCS!Advance(t)
    BY <2>4, CCStackHarness DEF CCS!Advance, CCS!calls, calls
  <2>5. CASE CC!HandOver(t, "return") \/ CCS!HandOver(t, "return")
    BY <2>5, CCHarness, CCStackHarness DEF CC!HandOver, CCS!HandOver, CC!CanHelp, CCS!CanHelp, CC!Null, CCS!Null, Null,
       CC!calls, CCS!calls, calls
  <2>6. CASE H!HandOver(t, "unlock")
    BY <2>6, HSynchHarness DEF H!HandOver, H!CanHelp, H!Null, Null, H!calls, calls
  <2>7. CASE H!ClhLock(t, "lock", "wait") \/ H!ClhSpin(t, "wait", "combine") \/ H!ClhUnlock(t, "unlock", "return")
    BY <2>7, HSynchHarness DEF H!ClhLock, H!ClhSpin, H!ClhUnlock, H!calls, calls
  <2> QED
    BY <2>1, <2>2, <2>3, <2>4, <2>5, <2>6, <2>7
<1>3. PICK from \in {"spin", "lock", "wait", "release", "advance", "combine", "unlock"},
           to \in {"lock", "wait", "return", "combine", "advance", "unlock"} :
        /\ Go(t, from, to)
        /\ from = "spin" => IF Completed(cur(t)) THEN to = "return" ELSE to \in {"lock", "combine"}
        /\ from \in {"release", "advance"} => to \in {"combine", "advance"}
        /\ from = "combine" => /\ to \in {"return", "unlock"}
                               /\ mem[loc[t].p].next = Null \/ ~(loc[t].counter < HelpBound)
        /\ from = "lock" => to = "wait" /\ loc' = loc
        /\ from = "wait" => to = "combine" /\ loc' = loc
        /\ from = "unlock" => to = "return"
        /\ from = "advance" \/ to = "advance" => prog = "ccstack"
        /\ from = "spin" /\ to # "return" => \E k \in CounterStart : loc' = [loc EXCEPT ![t].p = cur(t), ![t].counter = k]
  BY <1>2
<1>4. pc[t] = from /\ pc'[t] = to /\ call' = call /\ cur(t) \in CCNode
  BY <1>1, <1>2, <1>3, CCCur DEF Go, calls
<1>5. \A n \in CCNode : mem'[n].completed = mem[n].completed /\ mem'[n].arg_ret = mem[n].arg_ret
                        /\ mem'[n].owner = mem[n].owner /\ mem'[n].next = mem[n].next
  BY <1>1, <1>2 DEF CCTypes
<1>6. cur(t)' = cur(t) /\ \A u \in Thread \ {t} : loc'[u] = loc[u]
  BY <1>1, <1>2 DEF CCTypes, cur
<1>7. (Completed(cur(t))' <=> Completed(cur(t))) /\ mem'[cur(t)].arg_ret = mem[cur(t)].arg_ret
      /\ mem'[cur(t)].owner = mem[cur(t)].owner /\ mem'[cur(t)].next = mem[cur(t)].next
  BY <1>4, <1>5, <1>6 DEF Completed
<1>8. CCRequest(t)'
  BY <1>1, <1>3, <1>4, <1>6, <1>7 DEF CCRequest
<1>9. CCServing(t)'
  <2> SUFFICES ASSUME prog # "ccstack" PROVE CCServing(t)'
    BY DEF CCServing
  <2>1. CASE from = "spin" /\ to # "return"
    <3>1. loc'[t].p = cur(t) /\ loc'[t].counter < HelpBound
      BY <1>1, <1>3, <2>1 DEF CCTypes, CounterBelow
    <3>2. to \in {"lock", "combine"} /\ mem[cur(t)].next # Null
      BY <1>1, <1>3, <1>4, <2>1 DEF CCServing
    <3> QED
      BY <1>4, <1>6, <1>7, <3>1, <3>2 DEF CCServing
  <2>2. CASE from = "spin" /\ to = "return"
    BY <1>3, <1>4, <1>6, <1>7, <2>2 DEF CCServing
  <2>3. CASE from = "combine"
    BY <1>1, <1>3, <1>4, <1>6, <1>7, <2>3 DEF CCServing
  <2>4. CASE from = "release"
    <3>1. Completed(cur(t)) /\ to = "combine"
      BY <1>1, <1>3, <1>4, <2>4 DEF CCServing
    <3>2. mem[cur(t)].next # Null
      BY <1>1, <1>4, <2>4 DEF CCServing
    <3> QED
      BY <1>1, <1>3, <1>4, <1>6, <1>7, <3>1, <3>2 DEF CCServing
  <2>5. CASE from \in {"lock", "wait"}
    <3>1. loc' = loc /\ to \in {"wait", "combine"} /\ mem[cur(t)].next # Null
      BY <1>1, <1>3, <1>4, <2>5 DEF CCServing
    <3>2. Completed(cur(t)) \/ (loc[t].p = cur(t) /\ loc[t].counter < HelpBound)
      BY <1>1, <1>4, <2>5 DEF CCServing
    <3> QED
      BY <1>4, <1>6, <1>7, <3>1, <3>2 DEF CCServing
  <2>6. CASE from = "unlock"
    <3>1. Completed(cur(t)) /\ to = "return"
      BY <1>1, <1>3, <1>4, <2>6 DEF CCServing
    <3> QED
      BY <1>4, <1>7, <3>1 DEF CCServing
  <2> QED
    BY <1>3, <2>1, <2>2, <2>3, <2>4, <2>5, <2>6
<1>10. from \in CCLabel \ {"idle"} /\ to \in CCLabel \ {"idle"}
  BY DEF CCLabel
<1> QED
  BY <1>2, <1>3, <1>5, <1>6, <1>8, <1>9, <1>10, CCQuiet

(* The combiner serves the request in the node it is at. *)
LEMMA CCServe ==
  ASSUME prog \in CCPrograms, prog' = prog, CallsOK, CCInv, CCCallInv, NEW t \in Thread,
         \/ prog = "ccuobject" /\ CC!Help(t)
         \/ prog \in HPrograms /\ H!Help(t)
         \/ prog = "ccstack" /\ CCS!StackHelp(t)
  PROVE  Effect(t) /\ CCCallInv'
<1> DEFINE n == loc[t].p
<1>1. /\ CCTypes /\ DOMAIN pc = Thread /\ NodesOK
      /\ \A u \in Thread : CCRequest(u) /\ CCServing(u) /\ CallOK(u)
  BY CCFrame DEF CCCallInv, CallsOK
<1>2. PICK op, x :
        /\ Go(t, "combine", "release") /\ mem[n].next # Null
        /\ op = IF prog # "ccstack" THEN call[t].op ELSE CCS!StackOp(t)
        /\ Perform(op, mem[n].owner, IF prog # "ccstack" THEN mem[n].arg_ret ELSE call[mem[n].owner].arg)
        /\ prog # "ccstack" => x = Outcome(op, mem[n].owner, mem[n].arg_ret)
        /\ mem' = [mem EXCEPT ![n].arg_ret = x, ![n].completed = TRUE]
        /\ \/ prog # "ccstack" /\ loc' = [loc EXCEPT ![t].counter = @ + 1, ![t].next = mem[n].next]
           \/ prog = "ccstack" /\ loc' = [loc EXCEPT ![t].counter = @ + 1]
  <2>1. CASE prog = "ccuobject" /\ CC!Help(t)
    BY <2>1, CCHarness DEF CC!Help, CC!CanHelp, CC!Null, Null
  <2>2. CASE prog = "ccstack" /\ CCS!StackHelp(t)
    BY <2>2, CCStackHarness DEF CCS!StackHelp, CCS!CanHelp, CCS!Null, Null
  <2>3. CASE prog \in HPrograms /\ H!Help(t)
    <3>1. prog # "ccstack"
      BY <2>3 DEF HPrograms
    <3> QED
      BY <2>3, <3>1, HSynchHarness DEF H!Help, H!CanHelp, H!Null, Null
  <2> QED
    BY <2>1, <2>2, <2>3
<1>3. pc[t] = "combine" /\ n \in CCNode /\ ~Completed(n) /\ n # Last(cluster(t))
  <2>1. pc[t] = "combine" /\ cluster(t) \in Clusters
    BY <1>2, CCFrame DEF Go
  <2> QED
    BY <1>1, <1>2, <2>1, AtNode DEF NodesOK
<1>4. PICK w \in Thread : n = cur(w) /\ Unserved(w) /\ (w = t \/ Queued(w))
  BY <1>3, AtNode
<1>5. /\ pc[w] # "idle" /\ call[w].st = "asked" /\ mem[n].owner = w
      /\ prog # "ccstack" => mem[n].arg_ret = call[w].arg
  <2>1. pc[w] # "idle"
    BY <1>4, CCCur DEF Unserved
  <2>2. call[w].st = "asked" /\ mem[n].owner = w /\ (prog # "ccstack" /\ pc[w] # "link1" => mem[n].arg_ret = call[w].arg)
    BY <1>1, <1>3, <1>4, <2>1 DEF CCRequest
  <2>3. prog # "ccstack" => pc[w] # "link1"
    BY <1>1, <1>2, <1>4 DEF CCServing
  <2> QED
    BY <2>1, <2>2, <2>3
<1>6. Perform(op, w, call[w].arg)
  BY <1>2, <1>5
<1>7. op \in Ops /\ (op = call[w].op \/ Exempt)
  <2>1. CASE prog \in {"ccuobject", "huobject"}
    <3>1. call[t].op \in Ops /\ call[w].op \in Ops
      BY <1>1, <1>3, <1>5 DEF CallOK
    <3> QED
      BY <1>2, <2>1, <3>1 DEF Ops, Stacks, Queues
  <2>3. CASE prog = "hstack"
    <3>1. call[t].op \in Ops
      BY <1>1, <1>3 DEF CallOK
    <3> QED
      BY <1>2, <2>3, <3>1 DEF Exempt, WrongOperation
  <2>2. CASE prog = "ccstack"
    BY <1>2, <2>2 DEF CCS!StackOp, Ops, Stacks, Exempt, WrongOperation
  <2> QED
    BY <2>1, <2>2, <2>3 DEF CCPrograms, HPrograms
<1>8. Serves(t, w)
  BY <1>2, <1>5, <1>6, <1>7 DEF Serves
<1> DEFINE r == Object!Serial(obj, op, call[w].arg)
<1>9. call' = [call EXCEPT ![w].st = "done", ![w].ret = r[2]]
  BY <1>6 DEF Perform
<1>10. prog # "ccstack" => x = r[2]
  BY <1>2, <1>5 DEF Outcome, CCPrograms, HPrograms
<1> HIDE DEF r
<1>11. /\ call'[w].st = "done" /\ call'[w].ret = r[2] /\ \A u \in Thread \ {w} : call'[u] = call[u]
       /\ pc'[t] = "release" /\ \A u \in Thread \ {t} : pc'[u] = pc[u]
  <2>1. DOMAIN call = Thread /\ DOMAIN call[w] = {"st", "op", "arg", "ret"}
    BY <1>1 DEF CallsOK, CallOK
  <2> QED
    BY <1>1, <1>2, <1>9, <2>1 DEF Go
<1> HIDE DEF n
<1>12. /\ \A m \in CCNode \ {n} : mem'[m] = mem[m]
       /\ mem'[n].completed = TRUE /\ mem'[n].next = mem[n].next /\ mem'[n].arg_ret = x
  BY <1>1, <1>2, <1>3 DEF CCTypes
<1>13. /\ \A u \in Thread : cur(u)' = cur(u)
       /\ \A u \in Thread \ {t} : loc'[u] = loc[u]
  <2>1. CASE prog # "ccstack" /\ loc' = [loc EXCEPT ![t].counter = @ + 1, ![t].next = mem[loc[t].p].next]
    BY <1>1, <2>1 DEF CCTypes, cur
  <2>2. CASE prog = "ccstack" /\ loc' = [loc EXCEPT ![t].counter = @ + 1]
    BY <1>1, <2>2 DEF CCTypes, cur
  <2> QED
    BY <1>2, <2>1, <2>2 DEF n
<1>14. \A u \in Thread \ {w} : pc[u] # "idle" => cur(u) \in CCNode \ {n}
  BY <1>4, <1>5, CCCur
<1>15. ASSUME NEW u \in Thread PROVE CCRequest(u)'
  <2>1. CASE u = w
    <3>1. Completed(cur(u))'
      BY <1>4, <1>12, <1>13, <2>1 DEF Completed
    <3> QED
      BY <1>4, <1>10, <1>11, <1>12, <1>13, <2>1, <3>1 DEF CCRequest
  <2>2. CASE u # w /\ pc[u] = "idle"
    BY <1>3, <1>11, <2>2 DEF CCRequest
  <2>3. CASE u # w /\ pc[u] # "idle"
    <3>1. cur(u)' = cur(u) /\ mem'[cur(u)] = mem[cur(u)] /\ call'[u] = call[u] /\ CCRequest(u)
      BY <1>1, <1>11, <1>12, <1>13, <1>14, <2>3
    <3>2. Completed(cur(u))' <=> Completed(cur(u))
      BY <3>1 DEF Completed
    <3>3. pc'[u] = "link1" <=> pc[u] = "link1"
      BY <1>3, <1>11
    <3> QED
      BY <2>3, <3>1, <3>2, <3>3 DEF CCRequest
  <2> QED
    BY <2>1, <2>2, <2>3
<1>16. CCServing(t)'
  <2> SUFFICES ASSUME prog # "ccstack" PROVE CCServing(t)'
    BY DEF CCServing
  <2>1. mem[cur(t)].next # Null /\ cur(t) \in CCNode
    BY <1>1, <1>3, CCCur DEF CCServing
  <2>2. mem'[cur(t)].next # Null
    BY <1>2, <1>12, <2>1
  <2>3. Completed(cur(t))'
    <3>1. CASE cur(t) = n
      BY <1>12, <1>13, <3>1 DEF Completed
    <3>2. CASE cur(t) # n
      <4>1. Completed(cur(t))
        BY <1>1, <1>3, <3>2 DEF CCServing, n
      <4> QED
        BY <1>12, <1>13, <2>1, <3>2, <4>1 DEF Completed
    <3> QED
      BY <3>1, <3>2
  <2> QED
    BY <1>11, <1>13, <2>2, <2>3 DEF CCServing
<1>17. ASSUME NEW u \in Thread \ {t} PROVE CCServing(u)'
  <2> SUFFICES ASSUME prog # "ccstack" PROVE CCServing(u)'
    BY DEF CCServing
  <2>1. pc'[u] = pc[u] /\ CCServing(u) /\ cur(u)' = cur(u) /\ loc'[u] = loc[u]
    BY <1>1, <1>11, <1>13
  <2>2. CASE u = w
    <3>1. pc[u] = "spin"
      BY <1>1, <1>2, <1>4, <2>2, <2>1 DEF CCServing, Queued, n
    <3>2. mem'[cur(u)].next = mem[cur(u)].next /\ Completed(cur(u))'
      BY <1>4, <1>12, <1>13, <2>2 DEF Completed
    <3> QED
      BY <2>1, <3>1, <3>2 DEF CCServing
  <2>3. CASE u # w /\ pc[u] # "idle"
    <3>1. mem'[cur(u)] = mem[cur(u)]
      BY <1>12, <1>14, <2>3
    <3>2. Completed(cur(u))' <=> Completed(cur(u))
      BY <2>1, <3>1 DEF Completed
    <3> QED
      BY <2>1, <3>1, <3>2 DEF CCServing
  <2>4. CASE pc[u] = "idle"
    BY <2>1, <2>4 DEF CCServing
  <2> QED
    BY <2>2, <2>3, <2>4
<1> QED
  BY <1>8, <1>15, <1>16, <1>17 DEF Effect, CCCallInv

(* A thread asks with the last node, and returns what that node holds. *)
LEMMA CCAsks ==
  ASSUME prog \in CCPrograms, prog' = prog, CallsOK, CCInv, CCCallInv, NEW t \in Thread,
         CC!Announce(t) \/ CCS!Announce(t) \/ H!Announce(t)
  PROVE  Effect(t) /\ CCCallInv'
<1>1. /\ CCTypes /\ NodesOK /\ Spares \in {1, 2} /\ DOMAIN pc = Thread /\ DOMAIN call = Thread
      /\ cluster(t) \in Clusters /\ Last(cluster(t)) \in CCNode /\ \A u \in Thread : CCRequest(u) /\ CCServing(u)
  BY CCFrame DEF CCCallInv, CallsOK
<1>2. PICK c \in CCNode : c = Last(cluster(t))
  BY <1>1
<1>3. PICK m \in CCNode : m = spare(t)[1] /\ m = Head(spare(t))
  BY <1>1, <1>2, Rotated
<1>4. m # c
  BY <1>1, <1>2, <1>3 DEF NodesOK
<1>5. PICK s :
        /\ Call(t, "link1")
        /\ mem' = [mem EXCEPT ![m] = [@ EXCEPT !.next = Null, !.locked = TRUE, !.completed = FALSE],
                              ![c].owner = t]
        /\ loc' = [loc EXCEPT ![t] = [@ EXCEPT !.cur = c, !.mine = m, !.spare = s]]
  <2>1. Head(loc[t].spare) = m /\ root.Tail[loc[t].cluster] = c
    BY <1>2, <1>3 DEF spare, Last, cluster
  <2>2. CASE CC!Announce(t)
    <3>1. mem' = [mem EXCEPT ![m] = [@ EXCEPT !.next = Null, !.locked = TRUE, !.completed = FALSE], ![c].owner = t]
      BY <2>1, <2>2 DEF CC!Announce, CC!Null, Null
    <3>2. Call(t, "link1") /\ \E s : loc' = [loc EXCEPT ![t] = [@ EXCEPT !.cur = c, !.mine = m, !.spare = s]]
      BY <2>1, <2>2, CCHarness DEF CC!Announce
    <3> QED
      BY <3>1, <3>2
  <2>3. CASE CCS!Announce(t)
    <3>1. mem' = [mem EXCEPT ![m] = [@ EXCEPT !.next = Null, !.locked = TRUE, !.completed = FALSE], ![c].owner = t]
      BY <2>1, <2>3 DEF CCS!Announce, CCS!Null, Null
    <3>2. Call(t, "link1") /\ \E s : loc' = [loc EXCEPT ![t] = [@ EXCEPT !.cur = c, !.mine = m, !.spare = s]]
      BY <2>1, <2>3, CCStackHarness DEF CCS!Announce
    <3> QED
      BY <3>1, <3>2
  <2>4. CASE H!Announce(t)
    <3>1. mem' = [mem EXCEPT ![m] = [@ EXCEPT !.next = Null, !.locked = TRUE, !.completed = FALSE], ![c].owner = t]
      BY <2>1, <2>4 DEF H!Announce, H!Null, Null
    <3>2. Call(t, "link1") /\ \E s : loc' = [loc EXCEPT ![t] = [@ EXCEPT !.cur = c, !.mine = m, !.spare = s]]
      BY <2>1, <2>4, HSynchHarness DEF H!Announce
    <3> QED
      BY <3>1, <3>2
  <2> QED
    BY <2>2, <2>3, <2>4
<1>6. Effect(t)
  BY <1>5 DEF Effect, Asks
<1>7. call'[t].st = "asked" /\ (\A u \in Thread \ {t} : call'[u] = call[u])
      /\ pc[t] = "idle" /\ pc'[t] = "link1" /\ \A u \in Thread \ {t} : pc'[u] = pc[u]
  BY <1>1, <1>5 DEF Call, Go, Object!Idle
<1>8. /\ \A n \in CCNode \ {m, c} : mem'[n] = mem[n]
      /\ mem'[c].completed = mem[c].completed /\ mem'[c].next = mem[c].next /\ mem'[c].owner = t
  BY <1>1, <1>4, <1>5 DEF CCTypes
<1>9. cur(t)' = c /\ \A u \in Thread \ {t} : loc'[u] = loc[u] /\ cur(u)' = cur(u)
  BY <1>1, <1>5 DEF CCTypes, cur
<1>10. \A u \in Thread \ {t} : pc[u] # "idle" => cur(u) \in CCNode \ {m, c}
  BY <1>1, <1>2, <1>3, CCCur DEF NodesOK
<1>11. ~Completed(c)' /\ mem'[c].next = Null
  BY <1>1, <1>2, <1>8 DEF NodesOK, Completed
<1>12. CCRequest(t)' /\ CCServing(t)'
  <2>1. ~Completed(cur(t))'
    BY <1>9, <1>11 DEF Completed
  <2> QED
    BY <1>7, <1>8, <1>9, <1>11, <2>1 DEF CCRequest, CCServing
<1>13. ASSUME NEW u \in Thread \ {t} PROVE CCRequest(u)' /\ CCServing(u)'
  <2>1. CASE pc[u] = "idle"
    BY <1>7, <2>1 DEF CCRequest, CCServing
  <2>2. CASE pc[u] # "idle"
    <3>1. pc'[u] = pc[u] /\ call'[u] = call[u] /\ loc'[u] = loc[u] /\ cur(u)' = cur(u) /\ mem'[cur(u)] = mem[cur(u)]
          /\ CCRequest(u) /\ CCServing(u)
      BY <1>1, <1>7, <1>8, <1>9, <1>10, <2>2
    <3>2. Completed(cur(u))' <=> Completed(cur(u))
      BY <3>1 DEF Completed
    <3>3. CCRequest(u)'
      BY <3>1, <3>2 DEF CCRequest
    <3>4. CCServing(u)'
      BY <3>1, <3>2 DEF CCServing
    <3> QED
      BY <3>3, <3>4
  <2> QED
    BY <2>1, <2>2
<1> QED
  BY <1>6, <1>12, <1>13 DEF CCCallInv

(* A thread of the cc programs takes its result out of its own node. *)
LEMMA CCAnswers ==
  ASSUME prog \in CCPrograms, prog' = prog, CallsOK, CCInv, CCCallInv, NEW t \in Thread,
         \/ prog = "ccuobject" /\ CC!ReturnResult(t)
         \/ prog \in HPrograms /\ H!ReturnResult(t)
         \/ prog = "ccstack" /\ CCS!ReturnResult(t)
  PROVE  Effect(t) /\ CCCallInv'
<1>1. /\ CCTypes /\ DOMAIN pc = Thread /\ DOMAIN call = Thread
      /\ \A u \in Thread : CCRequest(u) /\ CCServing(u)
  BY CCFrame DEF CCCallInv, CallsOK
<1>2. /\ Return(t, "return", mem[cur(t)].arg_ret)
      /\ (\E c : loc' = [loc EXCEPT ![t] = c]) /\ mem' = mem
  BY CCHarness, CCStackHarness, HSynchHarness DEF CC!ReturnResult, CCS!ReturnResult, H!ReturnResult, cur
<1>3. pc[t] = "return" /\ pc'[t] = "idle"
      /\ \A u \in Thread \ {t} : pc'[u] = pc[u] /\ call'[u] = call[u] /\ loc'[u] = loc[u] /\ cur(u)' = cur(u)
  BY <1>1, <1>2 DEF Return, Go, CCTypes, cur
<1>4. ~Exempt => call[t].st = "done" /\ mem[cur(t)].arg_ret = call[t].ret
  <2> SUFFICES ASSUME prog # "ccstack" PROVE call[t].st = "done" /\ mem[cur(t)].arg_ret = call[t].ret
    BY DEF Exempt, WrongOperation, CCPrograms
  <2> QED
    BY <1>1, <1>3 DEF CCServing, CCRequest
<1>5. Effect(t)
  BY <1>2, <1>4 DEF Effect, Returns
<1>6. CCRequest(t)' /\ CCServing(t)'
  BY <1>3 DEF CCRequest, CCServing
<1>7. ASSUME NEW u \in Thread \ {t} PROVE CCRequest(u)' /\ CCServing(u)'
  <2>1. Completed(cur(u))' <=> Completed(cur(u))
    BY <1>2, <1>3 DEF Completed
  <2>2. CCRequest(u)'
    BY <1>1, <1>2, <1>3, <2>1 DEF CCRequest
  <2>3. CCServing(u)'
    BY <1>1, <1>2, <1>3, <2>1 DEF CCServing
  <2> QED
    BY <2>2, <2>3
<1> QED
  BY <1>5, <1>6, <1>7 DEF CCCallInv

(* Every step of the cc programs. *)
LEMMA CCServesAll ==
  ASSUME CounterBelow, prog' = prog, CallsOK, CCInv, CCCallInv, NEW t \in Thread,
         \/ prog = "ccuobject" /\ CC!CCStep(t)
         \/ prog \in HPrograms /\ H!HSynchStep(t)
         \/ prog = "ccstack" /\ CCS!CCStackStep(t)
  PROVE  Effect(t) /\ CCCallInv'
<1>1. prog \in CCPrograms
  BY DEF CCPrograms
<1>2. CASE prog = "ccuobject" /\ CC!CCStep(t)
  BY <1>1, <1>2, CCWritten, CCPasses, CCServe, CCAsks, CCAnswers DEF CC!CCStep
<1>3. CASE prog = "ccstack" /\ CCS!CCStackStep(t)
  BY <1>1, <1>3, CCWritten, CCPasses, CCServe, CCAsks, CCAnswers DEF CCS!CCStackStep
<1>4. CASE prog \in HPrograms /\ H!HSynchStep(t)
  BY <1>1, <1>4, CCWritten, CCPasses, CCServe, CCAsks, CCAnswers DEF H!HSynchStep
<1> QED
  BY <1>2, <1>3, <1>4

-----------------------------------------------------------------------------
(* ccqueue and locksqueue *)

TwoLockPrograms == {"ccqueue", "locksqueue"}

(* The node the list ends with, which the pointer to the last one reaches when
   the enqueue is over. *)
End == IF obj = <<>> THEN root.first ELSE obj[Len(obj)]

(* A node that is still to be enqueued. *)
Fresh(t, k) == k \in 1 .. runs[t] \/ (pc[t] \in {"lock", "append"} /\ k = runs[t] + 1)

(* The list from the guard on is the object. *)
ListOK ==
  /\ DOMAIN mem = {Tlq!Guard} \cup Args
  /\ root.first \in DOMAIN mem
  /\ mem[root.first] = IF obj = <<>> THEN Tlq!None ELSE obj[1]
  /\ \A i \in 1 .. Len(obj) : mem[obj[i]] = IF i = Len(obj) THEN Tlq!None ELSE obj[i + 1]
  /\ \A i \in 1 .. Len(obj) : obj[i] # root.first
  /\ \A i, j \in 1 .. Len(obj) : obj[i] = obj[j] => i = j
  /\ (\A t \in Thread : pc[t] # "swing") => root.last = End
FreshOK ==
  \A t \in Thread : \A k \in 1 .. Load[prog][t] : Fresh(t, k) =>
    /\ mem[<<"arg", t, k>>] = Tlq!None
    /\ <<"arg", t, k>> # root.first
    /\ \A i \in 1 .. Len(obj) : obj[i] # <<"arg", t, k>>
QueueCallOK(t) ==
  /\ pc[t] \in {"lock", "append", "take"} => call[t].st = "asked"
  /\ pc[t] \in {"swing", "unlock", "return"} => call[t].st = "done"
  /\ pc[t] \in {"append", "swing"} => call[t].op = "enq"
  /\ pc[t] = "take" => call[t].op = "deq"
  /\ pc[t] = "swing" => call[t].arg = End /\ call[t].ret = Object!Ok
  /\ pc[t] \in {"unlock", "return"} /\ <<prog, call[t].op>> \notin WrongResult => loc[t] = call[t].ret
TwoLockCallInv == DOMAIN loc = Thread /\ ListOK /\ FreshOK /\ \A t \in Thread : QueueCallOK(t)

(* The harness is the same in every program. *)
LEMMA TwoLockHarness ==
  /\ \A t, to : Tlq!Call(t, to) <=> Call(t, to)
  /\ \A t, from, to : Tlq!Go(t, from, to) <=> Go(t, from, to)
  /\ \A op, x, v : Tlq!Perform(op, x, v) <=> Perform(op, x, v)
  /\ \A op, x, v : Tlq!Outcome(op, x, v) = Outcome(op, x, v)
  /\ \A o, op, v : Tlq!Object!Serial(o, op, v) = Object!Serial(o, op, v)
  /\ \A t, from, v : Tlq!Return(t, from, v) <=> Return(t, from, v)
<1>1. \A o, op, v : Tlq!Object!Serial(o, op, v) = Object!Serial(o, op, v)
  BY DEF Tlq!Object!Serial, Object!Serial, Tlq!Object!Ok, Object!Ok, Tlq!Object!Empty, Object!Empty,
         Tlq!Object!Count, Object!Count
<1>2. Tlq!Object!Idle = Object!Idle
  BY DEF Tlq!Object!Idle, Object!Idle, Tlq!Object!Ok, Object!Ok
<1>3. \A left : Tlq!OpOf(left) = OpOf(left)
  BY DEF Tlq!OpOf, OpOf, Tlq!Stacks, Stacks, Tlq!Queues, Queues
<1>4. \A t, from, to : Tlq!Go(t, from, to) <=> Go(t, from, to)
  BY DEF Tlq!Go, Go
<1>5. \A t, to : Tlq!Call(t, to) <=> Call(t, to)
  BY <1>2, <1>3, <1>4 DEF Tlq!Call, Call
<1>6. \A op, x, v : Tlq!Perform(op, x, v) <=> Perform(op, x, v)
  BY <1>1 DEF Tlq!Perform, Perform
<1>7. \A op, x, v : Tlq!Outcome(op, x, v) = Outcome(op, x, v)
  BY <1>1 DEF Tlq!Outcome, Outcome
<1>8. \A t, from, v : Tlq!Return(t, from, v) <=> Return(t, from, v)
  BY <1>2, <1>4 DEF Tlq!Return, Return
<1> QED
  BY <1>1, <1>4, <1>5, <1>6, <1>7, <1>8


(* What the steps have in common. *)
LEMMA TwoLockFrame ==
  ASSUME prog \in TwoLockPrograms, prog' = prog, TwoLockInv, CallsOK
  PROVE  /\ pc \in [Thread -> TwoLockLabel] /\ DOMAIN root = {"first", "last", "enq", "deq"}
         /\ \A t \in Thread : /\ pc[t] # "idle" => /\ call[t].op \in {"enq", "deq"}
                                                   /\ runs[t] + 1 \in 1 .. Load[prog][t]
                                                   /\ call[t].arg = <<"arg", t, runs[t] + 1>>
                                                   /\ call[t].arg \in Args
                              /\ runs[t] \in Nat /\ Load[prog][t] \in Nat
                              /\ DOMAIN call[t] = {"st", "op", "arg", "ret"}
         /\ \A t, u \in Thread : /\ pc[t] \in {"append", "swing", "take", "unlock"}
                                 /\ pc[u] \in {"append", "swing", "take", "unlock"}
                                 /\ call[t].op = call[u].op
                                 => t = u
         /\ obj \in Seq(Args) /\ Args' = Args /\ Len(obj) \in Nat
         /\ DOMAIN pc = Thread /\ DOMAIN call = Thread /\ DOMAIN runs = Thread
         /\ Tlq!Guard \notin Args /\ Tlq!None \notin Args /\ Tlq!None # Tlq!Guard
<1>1. \A t, u \in Thread : /\ pc[t] \in {"append", "swing", "take", "unlock"}
                           /\ pc[u] \in {"append", "swing", "take", "unlock"}
                           /\ call[t].op = call[u].op
                           => t = u
  <2> SUFFICES ASSUME NEW t \in Thread, NEW u \in Thread, pc[t] \in {"append", "swing", "take", "unlock"},
                      pc[u] \in {"append", "swing", "take", "unlock"}, call[t].op = call[u].op
               PROVE  t = u
    OBVIOUS
  <2>1. t \in Inside /\ u \in Inside
    BY CriticalIs DEF Inside, TwoLockPrograms
  <2> QED
    BY <2>1 DEF TwoLockInv
<1>2. obj \in Seq(Args) /\ Args' = Args
  BY DEF CallsOK, TwoLockPrograms, Queues, Args
<1>3. Len(obj) \in Nat
  <2> HIDE DEF Args
  <2> QED
    BY <1>2
<1>4. Tlq!Guard \notin Args /\ Tlq!None \notin Args /\ Tlq!None # Tlq!Guard
  BY DEF Args, Tlq!Guard, Tlq!None
<1>5. \A t \in Thread : runs[t] \in Nat /\ Load[prog][t] \in Nat /\ CallOK(t)
  BY SynchProgramsAssumption DEF CallsOK, CallOK
<1>7. \A t \in Thread : pc[t] # "idle" => call[t].arg = <<"arg", t, runs[t] + 1>> /\ call[t].arg \in Args
  BY <1>5 DEF CallOK
<1>6. ASSUME NEW t \in Thread, pc[t] # "idle"
      PROVE  runs[t] + 1 \in 1 .. Load[prog][t]
  <2>1. call[t].arg = <<"arg", t, runs[t] + 1>> /\ call[t].arg \in Args
    BY <1>6, <1>7
  <2>2. PICK u \in Thread : call[t].arg \in {<<"arg", u, k>> : k \in 1 .. Load[prog][u]}
    BY <2>1 DEF Args
  <2>3. PICK k \in 1 .. Load[prog][u] : call[t].arg = <<"arg", u, k>>
    BY <2>2
  <2> QED
    BY <2>1, <2>3
<1>8. \A t \in Thread : pc[t] # "idle" => call[t].op \in {"enq", "deq"}
  BY DEF TwoLockInv
<1>9. /\ pc \in [Thread -> TwoLockLabel] /\ DOMAIN root = {"first", "last", "enq", "deq"}
      /\ \A t \in Thread : DOMAIN call[t] = {"st", "op", "arg", "ret"}
      /\ DOMAIN pc = Thread /\ DOMAIN call = Thread /\ DOMAIN runs = Thread
  BY DEF TwoLockInv, CallsOK
<1> HIDE DEF Args
<1> QED
  BY <1>1, <1>2, <1>3, <1>4, <1>5, <1>6, <1>7, <1>8, <1>9

(* A step that leaves the list alone. *)
LEMMA TwoLockQuiet ==
  ASSUME prog \in TwoLockPrograms, prog' = prog, TwoLockInv, CallsOK, TwoLockCallInv, NEW t \in Thread,
         mem' = mem, obj' = obj, root'.first = root.first, DOMAIN loc' = Thread,
         \A u \in Thread \ {t} : pc'[u] = pc[u] /\ call'[u] = call[u] /\ loc'[u] = loc[u] /\ runs'[u] = runs[u],
         root'.last = IF pc[t] = "swing" THEN End ELSE root.last, pc'[t] # "swing",
         \A k : Fresh(t, k)' => Fresh(t, k), QueueCallOK(t)'
  PROVE  TwoLockCallInv'
<1>1. /\ ListOK /\ FreshOK /\ \A u \in Thread : QueueCallOK(u)
      /\ Args' = Args /\ End' = End
  BY TwoLockFrame DEF TwoLockCallInv, End
<1>2. (\A u \in Thread : pc'[u] # "swing") => root'.last = End
  BY <1>1 DEF ListOK
<1>3. ListOK'
  BY <1>1, <1>2 DEF ListOK
<1>4. FreshOK'
  <2>1. \A u \in Thread : \A k : Fresh(u, k)' => Fresh(u, k)
    <3> SUFFICES ASSUME NEW u \in Thread \ {t} PROVE \A k : Fresh(u, k)' => Fresh(u, k)
      OBVIOUS
    <3> QED
      BY DEF Fresh
  <2> QED
    BY <1>1, <2>1 DEF FreshOK
<1>5. \A u \in Thread : QueueCallOK(u)'
  <2> SUFFICES ASSUME NEW u \in Thread \ {t} PROVE QueueCallOK(u)'
    OBVIOUS
  <2>1. QueueCallOK(u) /\ pc'[u] = pc[u] /\ call'[u] = call[u] /\ loc'[u] = loc[u]
    BY <1>1
  <2> QED
    BY <1>1, <2>1 DEF QueueCallOK
<1> QED
  BY <1>3, <1>4, <1>5 DEF TwoLockCallInv

(* A thread asks, takes its lock, moves the pointer to the last node, gives the
   lock back and returns. *)
LEMMA TwoLockPasses ==
  ASSUME prog \in TwoLockPrograms, prog' = prog, TwoLockInv, CallsOK, TwoLockCallInv, NEW t \in Thread,
         Tlq!QueueCall(t) \/ Tlq!QueueLock(t) \/ Tlq!QueueSwing(t) \/ Tlq!QueueUnlock(t) \/ Tlq!QueueReturn(t)
  PROVE  Effect(t) /\ TwoLockCallInv'
<1>1. /\ DOMAIN loc = Thread /\ ListOK /\ FreshOK /\ QueueCallOK(t)
      /\ DOMAIN pc = Thread /\ DOMAIN call = Thread /\ DOMAIN runs = Thread
      /\ DOMAIN root = {"first", "last", "enq", "deq"}
  BY TwoLockFrame DEF TwoLockCallInv, End
<1>2. runs[t] \in Nat /\ (pc[t] # "idle" => call[t].op \in {"enq", "deq"})
  BY TwoLockFrame
<1>3. CASE Tlq!QueueCall(t)
  <2>1. Call(t, "lock") /\ mem' = mem /\ root' = root /\ loc' = loc
    BY <1>3, TwoLockHarness DEF Tlq!QueueCall
  <2>2. Effect(t)
    BY <2>1 DEF Effect, Asks
  <2>3. call'[t].st = "asked" /\ runs[t] > 0
    BY <1>1, <2>1 DEF Call, Object!Idle
  <2>4. /\ pc[t] = "idle" /\ pc'[t] = "lock" /\ runs'[t] = runs[t] - 1 /\ obj' = obj
        /\ \A u \in Thread \ {t} : pc'[u] = pc[u] /\ call'[u] = call[u] /\ runs'[u] = runs[u]
    BY <1>1, <2>1 DEF Call, Go
  <2>5. \A k : Fresh(t, k)' => Fresh(t, k)
    BY <1>2, <2>3, <2>4 DEF Fresh
  <2>6. QueueCallOK(t)'
    BY <2>3, <2>4 DEF QueueCallOK
  <2> QED
    BY <1>1, <2>1, <2>2, <2>4, <2>5, <2>6, TwoLockQuiet
<1>4. CASE Tlq!QueueLock(t)
  <2>1. /\ Go(t, "lock", IF call[t].op = "enq" THEN "append" ELSE "take") /\ UNCHANGED calls
        /\ root' = [root EXCEPT ![call[t].op] = t] /\ loc' = loc /\ mem' = mem
    BY <1>4, TwoLockHarness DEF Tlq!QueueLock, Tlq!calls, calls
  <2>2. Effect(t)
    BY <2>1 DEF Effect, Moves
  <2>3. /\ pc[t] = "lock" /\ pc'[t] = (IF call[t].op = "enq" THEN "append" ELSE "take")
        /\ \A u \in Thread \ {t} : pc'[u] = pc[u]
        /\ call' = call /\ runs' = runs /\ obj' = obj
    BY <1>1, <2>1 DEF Go, calls
  <2>4. root'.first = root.first /\ root'.last = root.last
    BY <1>1, <1>2, <2>1, <2>3
  <2>5. \A k : Fresh(t, k)' => Fresh(t, k)
    BY <2>3 DEF Fresh
  <2>6. QueueCallOK(t)'
    BY <1>1, <1>2, <2>3 DEF QueueCallOK
  <2> QED
    BY <1>1, <2>1, <2>2, <2>3, <2>4, <2>5, <2>6, TwoLockQuiet
<1>5. CASE Tlq!QueueSwing(t)
  <2>1. /\ Go(t, "swing", "unlock") /\ UNCHANGED calls /\ mem' = mem
        /\ root' = [root EXCEPT !.last = call[t].arg] /\ loc' = [loc EXCEPT ![t] = Object!Ok]
    BY <1>5, TwoLockHarness DEF Tlq!QueueSwing, Tlq!calls, calls, Tlq!Object!Ok, Object!Ok
  <2>2. Effect(t)
    BY <2>1 DEF Effect, Moves
  <2>3. /\ pc[t] = "swing" /\ pc'[t] = "unlock" /\ (\A u \in Thread \ {t} : pc'[u] = pc[u])
        /\ call' = call /\ runs' = runs /\ obj' = obj
    BY <1>1, <2>1 DEF Go, calls
  <2>4. call[t].arg = End /\ call[t].ret = Object!Ok /\ call[t].st = "done"
    BY <1>1, <2>3 DEF QueueCallOK
  <2>5. root'.first = root.first /\ root'.last = End
    BY <1>1, <2>1, <2>4
  <2>6. /\ DOMAIN loc' = Thread /\ loc'[t] = Object!Ok
        /\ \A u \in Thread \ {t} : loc'[u] = loc[u]
    BY <1>1, <2>1
  <2>7. \A k : Fresh(t, k)' => Fresh(t, k)
    BY <2>3 DEF Fresh
  <2>8. QueueCallOK(t)'
    BY <2>3, <2>4, <2>6 DEF QueueCallOK
  <2> QED
    BY <2>1, <2>2, <2>3, <2>5, <2>6, <2>7, <2>8, TwoLockQuiet
<1>6. CASE Tlq!QueueUnlock(t)
  <2>1. /\ Go(t, "unlock", "return") /\ UNCHANGED calls
        /\ root' = [root EXCEPT ![call[t].op] = Null] /\ loc' = loc /\ mem' = mem
    BY <1>6, TwoLockHarness DEF Tlq!QueueUnlock, Tlq!calls, calls, Tlq!Null, Null
  <2>2. Effect(t)
    BY <2>1 DEF Effect, Moves
  <2>3. /\ pc[t] = "unlock" /\ pc'[t] = "return" /\ (\A u \in Thread \ {t} : pc'[u] = pc[u])
        /\ call' = call /\ runs' = runs /\ obj' = obj
    BY <1>1, <2>1 DEF Go, calls
  <2>4. root'.first = root.first /\ root'.last = root.last
    BY <1>1, <1>2, <2>1, <2>3
  <2>5. \A k : Fresh(t, k)' => Fresh(t, k)
    BY <2>3 DEF Fresh
  <2>6. QueueCallOK(t)'
    BY <1>1, <2>1, <2>3 DEF QueueCallOK
  <2> QED
    BY <1>1, <2>1, <2>2, <2>3, <2>4, <2>5, <2>6, TwoLockQuiet
<1>7. CASE Tlq!QueueReturn(t)
  <2>1. Return(t, "return", loc[t]) /\ mem' = mem /\ root' = root /\ loc' = loc
    BY <1>7, TwoLockHarness DEF Tlq!QueueReturn
  <2>2. /\ pc[t] = "return" /\ pc'[t] = "idle" /\ runs' = runs /\ obj' = obj
        /\ \A u \in Thread \ {t} : pc'[u] = pc[u] /\ call'[u] = call[u]
    BY <1>1, <2>1 DEF Return, Go
  <2>3. call[t].st = "done" /\ (<<prog, call[t].op>> \notin WrongResult => loc[t] = call[t].ret)
    BY <1>1, <2>2 DEF QueueCallOK
  <2>4. Effect(t)
    BY <2>1, <2>3 DEF Effect, Returns
  <2>5. \A k : Fresh(t, k)' => Fresh(t, k)
    BY <2>2 DEF Fresh
  <2>6. QueueCallOK(t)'
    BY <2>2 DEF QueueCallOK
  <2> QED
    BY <1>1, <2>1, <2>2, <2>4, <2>5, <2>6, TwoLockQuiet
<1> QED
  BY <1>3, <1>4, <1>5, <1>6, <1>7

(* The node linked last is the object's new last element; the thread alone is
   at this end. *)
LEMMA TwoLockLinks ==
  ASSUME prog \in TwoLockPrograms, prog' = prog, TwoLockInv, CallsOK, TwoLockCallInv, NEW t \in Thread, Tlq!QueueLink(t)
  PROVE  Effect(t) /\ TwoLockCallInv'
<1>1. /\ DOMAIN loc = Thread /\ ListOK /\ FreshOK /\ \A u \in Thread : QueueCallOK(u)
      /\ DOMAIN pc = Thread /\ DOMAIN call = Thread /\ obj \in Seq(Args) /\ Len(obj) \in Nat /\ Args' = Args
      /\ Tlq!Guard \notin Args /\ Tlq!None \notin Args
      /\ \A u \in Thread : runs[u] \in Nat
  BY TwoLockFrame DEF TwoLockCallInv
<1>2. Go(t, "append", "swing") /\ Perform("enq", t, call[t].arg) /\ root' = root /\ loc' = loc
      /\ mem' = [mem EXCEPT ![root.last] = call[t].arg]
  BY TwoLockHarness DEF Tlq!QueueLink
<1>3. pc[t] = "append" /\ pc'[t] = "swing" /\ \A u \in Thread \ {t} : pc'[u] = pc[u]
  BY <1>1, <1>2 DEF Go
<1>4. call[t].st = "asked" /\ call[t].op = "enq"
  BY <1>1, <1>3 DEF QueueCallOK
<1>5. PICK a \in Args : a = call[t].arg /\ a = <<"arg", t, runs[t] + 1>> /\ runs[t] + 1 \in 1 .. Load[prog][t]
  BY <1>3, TwoLockFrame
<1>6. \A u \in Thread : pc[u] # "swing"
  <2> SUFFICES ASSUME NEW u \in Thread, pc[u] = "swing" PROVE FALSE
    OBVIOUS
  <2>1. call[u].op = "enq"
    BY <1>1 DEF QueueCallOK
  <2>2. u = t
    BY <1>3, <1>4, <2>1, TwoLockFrame
  <2> QED
    BY <1>3, <2>2
<1>7. root.last = End /\ End \in DOMAIN mem
  BY <1>1, <1>6 DEF ListOK, End
<1>8. /\ obj' = Append(obj, a) /\ runs' = runs
      /\ call' = [call EXCEPT ![t].st = "done", ![t].ret = Object!Ok]
  BY <1>2, <1>5 DEF Perform, Object!Serial
<1>9. /\ call'[t].st = "done" /\ call'[t].ret = Object!Ok /\ call'[t].op = call[t].op /\ call'[t].arg = a
      /\ \A u \in Thread \ {t} : call'[u] = call[u]
  BY <1>1, <1>5, <1>8, TwoLockFrame
<1>10. Effect(t)
  <2>1. Serves(t, t)
    <3>1. "enq" \in Ops
      BY DEF Ops, TwoLockPrograms, Stacks, Queues
    <3> QED
      BY <1>2, <1>4, <3>1 DEF Serves
  <2> QED
    BY <2>1 DEF Effect
<1>11. mem[a] = Tlq!None /\ a # root.first /\ \A i \in 1 .. Len(obj) : obj[i] # a
  <2>1. Fresh(t, runs[t] + 1)
    BY <1>3 DEF Fresh
  <2> QED
    BY <1>1, <1>5, <2>1 DEF FreshOK
<1>12. /\ obj' \in Seq(Args) /\ Len(obj') = Len(obj) + 1 /\ obj'[Len(obj) + 1] = a /\ obj' # <<>>
       /\ \A i \in 1 .. Len(obj) : obj'[i] = obj[i]
  BY <1>1, <1>8
<1>13. End' = a /\ End # a
  BY <1>1, <1>11, <1>12 DEF End
<1>14. mem'[End] = a /\ DOMAIN mem' = DOMAIN mem /\ (\A n \in DOMAIN mem \ {End} : mem'[n] = mem[n]) /\ a \in DOMAIN mem
  BY <1>1, <1>2, <1>5, <1>7 DEF ListOK
<1>15. ListOK'
  <2>1. mem'[root.first] = obj'[1]
    <3>1. CASE obj = <<>>
      <4>1. End = root.first /\ Len(obj) = 0
        BY <3>1 DEF End
      <4> QED
        BY <1>12, <1>14, <4>1
    <3>2. CASE obj # <<>>
      <4>1. 1 \in 1 .. Len(obj) /\ Len(obj) \in 1 .. Len(obj)
        BY <1>1, <3>2
      <4>2. root.first # End
        BY <1>1, <3>2, <4>1 DEF ListOK, End
      <4>3. mem[root.first] = obj[1] /\ root.first \in DOMAIN mem
        BY <1>1, <3>2 DEF ListOK
      <4> QED
        BY <1>12, <1>14, <4>1, <4>2, <4>3
    <3> QED
      BY <3>1, <3>2
  <2>2. ASSUME NEW i \in 1 .. Len(obj')
        PROVE  mem'[obj'[i]] = IF i = Len(obj') THEN Tlq!None ELSE obj'[i + 1]
    <3>1. CASE i = Len(obj) + 1
      BY <1>1, <1>11, <1>12, <1>13, <1>14, <3>1
    <3>2. CASE i = Len(obj) /\ i # 0
      <4>1. obj # <<>> /\ obj[i] = End
        BY <1>1, <3>2 DEF End
      <4> QED
        BY <1>1, <1>12, <1>14, <3>2, <4>1
    <3>3. CASE i \in 1 .. Len(obj) - 1
      <4>1. i \in 1 .. Len(obj) /\ Len(obj) \in 1 .. Len(obj) /\ i # Len(obj) /\ i + 1 \in 1 .. Len(obj) /\ obj # <<>>
        BY <1>1, <3>3
      <4>2. obj[i] # End /\ mem[obj[i]] = obj[i + 1]
        BY <1>1, <4>1 DEF ListOK, End
      <4>3. obj[i] \in DOMAIN mem
        BY <1>1, <4>1 DEF ListOK
      <4> QED
        BY <1>1, <1>12, <1>14, <4>1, <4>2, <4>3
    <3> QED
      BY <1>1, <1>12, <3>1, <3>2, <3>3
  <2>3. \A i \in 1 .. Len(obj') : obj'[i] # root.first
    BY <1>1, <1>11, <1>12 DEF ListOK
  <2>4. \A i, j \in 1 .. Len(obj') : obj'[i] = obj'[j] => i = j
    <3>1. \A i \in 1 .. Len(obj') : i = Len(obj) + 1 \/ i \in 1 .. Len(obj)
      BY <1>1, <1>12
    <3> QED
      BY <1>1, <1>11, <1>12, <3>1 DEF ListOK
  <2>5. DOMAIN mem' = {Tlq!Guard} \cup Args' /\ root'.first \in DOMAIN mem' /\ ~\A u \in Thread : pc'[u] # "swing"
    BY <1>1, <1>2, <1>3, <1>14 DEF ListOK
  <2> QED
    BY <1>2, <1>12, <2>1, <2>2, <2>3, <2>4, <2>5 DEF ListOK
<1>16. FreshOK'
  <2> SUFFICES ASSUME NEW u \in Thread, NEW k \in 1 .. Load[prog][u], Fresh(u, k)'
               PROVE  /\ mem'[<<"arg", u, k>>] = Tlq!None /\ <<"arg", u, k>> # root.first
                      /\ \A i \in 1 .. Len(obj') : obj'[i] # <<"arg", u, k>>
    BY <1>2 DEF FreshOK
  <2>1. Fresh(u, k) /\ <<"arg", u, k>> # a
    <3>1. CASE u = t
      BY <1>1, <1>3, <1>5, <1>8, <3>1 DEF Fresh
    <3>2. CASE u # t
      BY <1>3, <1>5, <1>8, <3>2 DEF Fresh
    <3> QED
      BY <3>1, <3>2
  <2>2. /\ mem[<<"arg", u, k>>] = Tlq!None /\ <<"arg", u, k>> # root.first
        /\ \A i \in 1 .. Len(obj) : obj[i] # <<"arg", u, k>>
    BY <1>1, <2>1 DEF FreshOK
  <2>3. <<"arg", u, k>> # End
    BY <1>1, <2>2 DEF End
  <2>4. <<"arg", u, k>> \in DOMAIN mem
    BY <1>1 DEF ListOK, Args
  <2>5. \A i \in 1 .. Len(obj') : i = Len(obj) + 1 \/ i \in 1 .. Len(obj)
    BY <1>1, <1>12
  <2>6. \A i \in 1 .. Len(obj') : obj'[i] # <<"arg", u, k>>
    BY <1>12, <2>1, <2>2, <2>5
  <2>7. mem'[<<"arg", u, k>>] = mem[<<"arg", u, k>>]
    BY <1>14, <2>3, <2>4
  <2> QED
    BY <2>2, <2>6, <2>7
<1>17. \A u \in Thread : QueueCallOK(u)'
  <2>1. QueueCallOK(t)'
    BY <1>3, <1>4, <1>9, <1>13 DEF QueueCallOK
  <2>2. ASSUME NEW u \in Thread \ {t} PROVE QueueCallOK(u)'
    BY <1>1, <1>2, <1>3, <1>6, <1>9 DEF QueueCallOK
  <2> QED
    BY <2>1, <2>2
<1> QED
  BY <1>1, <1>2, <1>10, <1>15, <1>16, <1>17 DEF TwoLockCallInv

(* The node a dequeue moves to holds the object's first element. *)
LEMMA TwoLockTakes ==
  ASSUME prog \in TwoLockPrograms, prog' = prog, TwoLockInv, CallsOK, TwoLockCallInv, NEW t \in Thread, Tlq!QueueTake(t)
  PROVE  Effect(t) /\ TwoLockCallInv'
<1> DEFINE succ == mem[root.first]
           r == Object!Serial(obj, "deq", call[t].arg)
<1>1. /\ DOMAIN loc = Thread /\ ListOK /\ FreshOK /\ \A u \in Thread : QueueCallOK(u)
      /\ DOMAIN pc = Thread /\ DOMAIN call = Thread /\ obj \in Seq(Args) /\ Len(obj) \in Nat /\ Args' = Args
      /\ Tlq!Guard \notin Args /\ Tlq!None \notin Args
      /\ DOMAIN root = {"first", "last", "enq", "deq"}
  BY TwoLockFrame DEF TwoLockCallInv
<1>2. /\ Go(t, "take", "unlock") /\ Perform("deq", t, call[t].arg) /\ mem' = mem
      /\ root' = [root EXCEPT !.first = IF succ = Tlq!None THEN root.first ELSE succ]
      /\ loc' = [loc EXCEPT ![t] = IF succ = Tlq!None THEN Object!Empty
                                   ELSE IF prog = "ccqueue" THEN root.first ELSE succ]
  BY TwoLockHarness DEF Tlq!QueueTake, Tlq!Object!Empty, Object!Empty
<1>3. pc[t] = "take" /\ pc'[t] = "unlock" /\ \A u \in Thread \ {t} : pc'[u] = pc[u]
  BY <1>1, <1>2 DEF Go
<1>4. call[t].st = "asked" /\ call[t].op = "deq"
  BY <1>1, <1>3 DEF QueueCallOK
<1>5. obj' = r[1] /\ runs' = runs /\ call' = [call EXCEPT ![t].st = "done", ![t].ret = r[2]]
  BY <1>2 DEF Perform
<1>6. Effect(t)
  <2>1. "deq" \in Ops
    BY DEF Ops, TwoLockPrograms, Stacks, Queues
  <2>2. Serves(t, t)
    BY <1>2, <1>4, <2>1 DEF Serves
  <2> QED
    BY <2>2 DEF Effect
<1> DEFINE F == IF obj = <<>> THEN root.first ELSE obj[1]
           rest == IF obj = <<>> THEN obj ELSE Tail(obj)
<1>7. /\ obj = <<>> => succ = Tlq!None /\ r[1] = obj /\ r[2] = Object!Empty
      /\ obj # <<>> => succ = obj[1] /\ succ # Tlq!None /\ r[1] = Tail(obj) /\ r[2] = obj[1]
  <2>1. obj = <<>> => succ = Tlq!None /\ r[1] = obj /\ r[2] = Object!Empty
    BY <1>1 DEF ListOK, Object!Serial
  <2>2. obj # <<>> => succ = obj[1] /\ obj[1] \in Args
    BY <1>1 DEF ListOK
  <2>3. obj # <<>> => r[1] = Tail(obj) /\ r[2] = obj[1]
    BY <1>1 DEF Object!Serial
  <2> QED
    BY <1>1, <2>1, <2>2, <2>3
<1>8. /\ obj' = rest /\ root'.first = F /\ root'.last = root.last /\ DOMAIN loc' = Thread
      /\ (<<prog, call[t].op>> \notin WrongResult => loc'[t] = r[2]) /\ \A u \in Thread \ {t} : loc'[u] = loc[u]
  BY <1>1, <1>2, <1>4, <1>5, <1>7 DEF WrongResult
<1> HIDE DEF r, succ
<1>9. /\ call'[t].st = "done" /\ call'[t].ret = r[2] /\ call'[t].op = call[t].op
      /\ \A u \in Thread \ {t} : call'[u] = call[u]
  BY <1>1, <1>5, TwoLockFrame
<1> HIDE DEF F, rest
<1>10. CASE obj = <<>>
  <2>1. rest = obj /\ F = root.first
    BY <1>10 DEF F, rest
  <2>2. End' = End
    BY <1>8, <2>1 DEF End
  <2>3. ListOK'
    BY <1>1, <1>2, <1>3, <1>8, <2>1, <2>2 DEF ListOK
  <2>4. \A u \in Thread : \A k : Fresh(u, k)' => Fresh(u, k)
    BY <1>3, <1>5 DEF Fresh
  <2>5. FreshOK'
    BY <1>1, <1>2, <1>8, <2>1, <2>4 DEF FreshOK
  <2>6. \A u \in Thread : QueueCallOK(u)'
    <3>1. QueueCallOK(t)'
      BY <1>3, <1>8, <1>9 DEF QueueCallOK
    <3>2. ASSUME NEW u \in Thread \ {t} PROVE QueueCallOK(u)'
      BY <1>1, <1>3, <1>8, <1>9, <2>2 DEF QueueCallOK
    <3> QED
      BY <3>1, <3>2
  <2> QED
    BY <1>6, <1>8, <2>3, <2>5, <2>6 DEF TwoLockCallInv
<1>11. CASE obj # <<>>
  <2>1. /\ rest = Tail(obj) /\ F = obj[1] /\ Len(obj) # 0
    BY <1>1, <1>11 DEF F, rest
  <2>2. /\ Len(rest) = Len(obj) - 1 /\ (rest = <<>> <=> Len(obj) = 1)
        /\ \A i \in 1 .. Len(rest) : rest[i] = obj[i + 1] /\ i + 1 \in 1 .. Len(obj)
    <3>1. Tail(obj) \in Seq(Args) /\ Len(Tail(obj)) = Len(obj) - 1
      BY <1>1, <1>11
    <3>2. \A i \in 1 .. Len(Tail(obj)) : Tail(obj)[i] = obj[i + 1]
      BY <1>1, <1>11
    <3>3. \A i \in 1 .. Len(obj) - 1 : i + 1 \in 1 .. Len(obj)
      BY <1>1
    <3>4. Tail(obj) = <<>> <=> Len(Tail(obj)) = 0
      BY <3>1
    <3>5. Tail(obj) = <<>> <=> Len(obj) = 1
      BY <1>1, <3>1, <3>4
    <3> QED
      BY <2>1, <3>1, <3>2, <3>3, <3>5
  <2>3. End' = End
    <3>1. CASE Len(obj) = 1
      BY <1>1, <1>8, <1>11, <2>1, <2>2, <3>1 DEF End
    <3>2. CASE Len(obj) # 1
      <4>1. Len(rest) \in 1 .. Len(rest) /\ rest # <<>> /\ Len(rest) + 1 = Len(obj)
        BY <1>1, <2>1, <2>2, <3>2
      <4> QED
        BY <1>8, <1>11, <2>2, <4>1 DEF End
    <3> QED
      BY <3>1, <3>2
  <2>4. ListOK'
    <3>1. 1 \in 1 .. Len(obj) /\ obj[1] \in DOMAIN mem
      BY <1>1, <2>1 DEF ListOK
    <3>2. mem[F] = IF rest = <<>> THEN Tlq!None ELSE rest[1]
      <4>1. mem[F] = IF 1 = Len(obj) THEN Tlq!None ELSE obj[1 + 1]
        BY <1>1, <2>1, <3>1 DEF ListOK
      <4>2. Len(obj) # 1 => rest[1] = obj[1 + 1]
        BY <1>1, <2>1, <2>2
      <4> QED
        BY <2>2, <4>1, <4>2
    <3>3. ASSUME NEW i \in 1 .. Len(rest)
          PROVE  /\ mem[rest[i]] = IF i = Len(rest) THEN Tlq!None ELSE rest[i + 1]
                 /\ rest[i] # F
      <4>1. rest[i] = obj[i + 1] /\ i + 1 \in 1 .. Len(obj) /\ i + 1 # 1 /\ i \in Nat
        BY <2>2
      <4>2. mem[rest[i]] = IF i + 1 = Len(obj) THEN Tlq!None ELSE obj[i + 2]
        BY <1>1, <4>1 DEF ListOK
      <4>3. i # Len(rest) => rest[i + 1] = obj[i + 2]
        BY <1>1, <2>2, <4>1
      <4>4. rest[i] # F
        BY <1>1, <2>1, <3>1, <4>1 DEF ListOK
      <4> QED
        BY <1>1, <2>2, <4>1, <4>2, <4>3, <4>4
    <3>4. \A i, j \in 1 .. Len(rest) : rest[i] = rest[j] => i = j
      <4>1. \A i, j \in 1 .. Len(rest) : obj[i + 1] = obj[j + 1] => i + 1 = j + 1
        BY <1>1, <2>2 DEF ListOK
      <4> QED
        BY <1>1, <2>2, <4>1
    <3>5. (\A u \in Thread : pc'[u] # "swing") => root'.last = End
      BY <1>1, <1>3, <1>8 DEF ListOK
    <3>6. DOMAIN mem' = {Tlq!Guard} \cup Args' /\ root'.first \in DOMAIN mem'
      BY <1>1, <1>2, <1>8, <2>1, <3>1 DEF ListOK
    <3>7. mem'[root'.first] = IF obj' = <<>> THEN Tlq!None ELSE obj'[1]
      BY <1>2, <1>8, <3>2
    <3>8. \A i \in 1 .. Len(obj') : /\ mem'[obj'[i]] = IF i = Len(obj') THEN Tlq!None ELSE obj'[i + 1]
                                    /\ obj'[i] # root'.first
      BY <1>2, <1>8, <3>3
    <3>9. \A i, j \in 1 .. Len(obj') : obj'[i] = obj'[j] => i = j
      BY <1>8, <3>4
    <3>10. (\A u \in Thread : pc'[u] # "swing") => root'.last = End'
      BY <2>3, <3>5
    <3> QED
      BY <3>6, <3>7, <3>8, <3>9, <3>10 DEF ListOK
  <2>5. FreshOK'
    <3> SUFFICES ASSUME NEW u \in Thread, NEW k \in 1 .. Load[prog][u], Fresh(u, k)'
                 PROVE  /\ mem[<<"arg", u, k>>] = Tlq!None /\ <<"arg", u, k>> # F
                        /\ \A i \in 1 .. Len(rest) : rest[i] # <<"arg", u, k>>
      BY <1>2, <1>8 DEF FreshOK
    <3>1. Fresh(u, k)
      BY <1>3, <1>5 DEF Fresh
    <3>2. /\ mem[<<"arg", u, k>>] = Tlq!None
          /\ \A i \in 1 .. Len(obj) : obj[i] # <<"arg", u, k>>
      BY <1>1, <3>1 DEF FreshOK
    <3>3. 1 \in 1 .. Len(obj)
      BY <1>1, <2>1
    <3> QED
      BY <2>1, <2>2, <3>2, <3>3
  <2>6. \A u \in Thread : QueueCallOK(u)'
    <3>1. QueueCallOK(t)'
      BY <1>3, <1>8, <1>9 DEF QueueCallOK
    <3>2. ASSUME NEW u \in Thread \ {t} PROVE QueueCallOK(u)'
      BY <1>1, <1>3, <1>8, <1>9, <2>3 DEF QueueCallOK
    <3> QED
      BY <3>1, <3>2
  <2> QED
    BY <1>6, <1>8, <2>4, <2>5, <2>6 DEF TwoLockCallInv
<1> QED
  BY <1>10, <1>11

(* Every step of ccqueue and locksqueue. *)
LEMMA TwoLockServes ==
  ASSUME prog \in TwoLockPrograms, prog' = prog, CallsOK, TwoLockInv, TwoLockCallInv, NEW t \in Thread, Tlq!TwoLockStep(t)
  PROVE  Effect(t) /\ TwoLockCallInv'
BY TwoLockPasses, TwoLockLinks, TwoLockTakes DEF Tlq!TwoLockStep

-----------------------------------------------------------------------------
(* oyamauobject *)

(* A request on a list, not served yet: the list everybody inserts into, or
   the one the combiner took. Each list has a front. *)
Listed(t)  == pc[t] \notin {"idle", "insert"} /\ call[t].st = "asked"
FrontOf(c) == IF pc[c] = "help" THEN loc[c].p ELSE IF pc[c] = "complete" THEN loc[c].next ELSE Null
Front(t)   == t = root.tail \/ \E c \in Thread : t = FrontOf(c)

(* The lists are disjoint, end, and hold every listed request. *)
OyamaLists ==
  /\ \A t \in Thread : Listed(t) => /\ mem[t].next = Null \/ (mem[t].next \in Thread /\ Listed(mem[t].next))
                                    /\ Front(t) \/ \E u \in Thread : Listed(u) /\ mem[u].next = t
  /\ \A t, u \in Thread : Listed(t) /\ Listed(u) /\ mem[t].next = mem[u].next /\ mem[t].next # Null => t = u
  /\ root.tail \in Thread \cup {Null} /\ \A c \in Thread : FrontOf(c) \in Thread \cup {Null}
  /\ \A t \in Thread : Front(t) => Listed(t)
  /\ \A t, u \in Thread : Front(t) /\ Listed(u) => mem[u].next # t
  /\ \A c \in Thread : FrontOf(c) # Null => FrontOf(c) # root.tail
  /\ \E rank \in [Thread -> Nat] : \A t, u \in Thread :
       Listed(t) /\ Listed(u) /\ mem[t].next = u => rank[t] < rank[u]

OyamaRequest(t) ==
  pc[t] # "idle" =>
    /\ call[t].st = "asked" => ~mem[t].completed /\ mem[t].arg_ret = call[t].arg
    /\ call[t].st = "done" => /\ mem[t].arg_ret = call[t].ret /\ pc[t] # "insert"
                              /\ mem[t].completed \/ \E c \in Thread : pc[c] = "complete" /\ loc[c].p = t
    /\ pc[t] \in {"unlock", "return"} => mem[t].completed
OyamaServing(t) ==
  /\ pc[t] = "help" => loc[t].p # Null
  /\ pc[t] = "complete" =>
       /\ loc[t].p \in Thread /\ pc[loc[t].p] # "idle"
       /\ ~mem[loc[t].p].completed /\ call[loc[t].p].st = "done"
OyamaTypes ==
  /\ DOMAIN mem = Thread /\ DOMAIN loc = Thread
  /\ \A t \in Thread : /\ DOMAIN mem[t] = {"next", "arg_ret", "pid", "completed"} /\ mem[t].pid = t
                       /\ DOMAIN loc[t] = {"p", "next"}
OyamaCallInv ==
  /\ OyamaTypes /\ OyamaLists
  /\ \A t \in Thread : OyamaRequest(t) /\ OyamaServing(t)

(* The harness is the same in every program. *)
LEMMA OyamaHarness ==
  /\ \A t, to : Oy!Call(t, to) <=> Call(t, to)
  /\ \A t, from, to : Oy!Go(t, from, to) <=> Go(t, from, to)
  /\ \A op, x, v : Oy!Perform(op, x, v) <=> Perform(op, x, v)
  /\ \A op, x, v : Oy!Outcome(op, x, v) = Outcome(op, x, v)
  /\ \A o, op, v : Oy!Object!Serial(o, op, v) = Object!Serial(o, op, v)
  /\ \A t, from, v : Oy!Return(t, from, v) <=> Return(t, from, v)
<1>1. \A o, op, v : Oy!Object!Serial(o, op, v) = Object!Serial(o, op, v)
  BY DEF Oy!Object!Serial, Object!Serial, Oy!Object!Ok, Object!Ok, Oy!Object!Empty, Object!Empty,
         Oy!Object!Count, Object!Count
<1>2. Oy!Object!Idle = Object!Idle
  BY DEF Oy!Object!Idle, Object!Idle, Oy!Object!Ok, Object!Ok
<1>3. \A left : Oy!OpOf(left) = OpOf(left)
  BY DEF Oy!OpOf, OpOf, Oy!Stacks, Stacks, Oy!Queues, Queues
<1>4. \A t, from, to : Oy!Go(t, from, to) <=> Go(t, from, to)
  BY DEF Oy!Go, Go
<1>5. \A t, to : Oy!Call(t, to) <=> Call(t, to)
  BY <1>2, <1>3, <1>4 DEF Oy!Call, Call
<1>6. \A op, x, v : Oy!Perform(op, x, v) <=> Perform(op, x, v)
  BY <1>1 DEF Oy!Perform, Perform
<1>7. \A op, x, v : Oy!Outcome(op, x, v) = Outcome(op, x, v)
  BY <1>1 DEF Oy!Outcome, Outcome
<1>8. \A t, from, v : Oy!Return(t, from, v) <=> Return(t, from, v)
  BY <1>2, <1>4 DEF Oy!Return, Return
<1> QED
  BY <1>1, <1>4, <1>5, <1>6, <1>7, <1>8


(* What the invariants of oyamauobject say, in the form its steps use. *)
LEMMA OyamaFrame ==
  ASSUME prog = "oyamauobject", prog' = prog, CallsOK, OyamaInv, OyamaCallInv
  PROVE  /\ pc \in [Thread -> OyamaLabel] /\ DOMAIN root = {"lock", "tail"} /\ Null \notin Thread
         /\ DOMAIN pc = Thread /\ DOMAIN call = Thread /\ OyamaTypes /\ OyamaLists
         /\ \A t \in Thread : /\ OyamaRequest(t) /\ OyamaServing(t) /\ CallOK(t)
                              /\ DOMAIN call[t] = {"st", "op", "arg", "ret"}
         /\ \A t, u \in Thread : /\ pc[t] \in {"sweep", "help", "complete", "unlock"}
                                 /\ pc[u] \in {"sweep", "help", "complete", "unlock"}
                                 => t = u
<1>1. Null \notin Thread
  BY SynchAssumption DEF Thread, Null
<1>2. \A t, u \in Thread : /\ pc[t] \in {"sweep", "help", "complete", "unlock"}
                           /\ pc[u] \in {"sweep", "help", "complete", "unlock"}
                           => t = u
  <2> SUFFICES ASSUME NEW t \in Thread, NEW u \in Thread, pc[t] \in {"sweep", "help", "complete", "unlock"},
                      pc[u] \in {"sweep", "help", "complete", "unlock"} PROVE t = u
    OBVIOUS
  <2>1. t \in Inside /\ u \in Inside
    BY CriticalIs DEF Inside
  <2> QED
    BY <2>1 DEF OyamaInv
<1>3. \A t \in Thread : CallOK(t) /\ DOMAIN call[t] = {"st", "op", "arg", "ret"}
  BY DEF CallsOK, CallOK
<1> QED
  BY <1>1, <1>2, <1>3 DEF OyamaInv, OyamaCallInv, CallsOK

(* A step after which the same requests are listed, in the same order. *)
LEMMA ListsStay ==
  ASSUME OyamaLists,
         \A u \in Thread : /\ Listed(u)' <=> Listed(u)
                           /\ Listed(u) => mem'[u].next = mem[u].next
                           /\ Front(u)' <=> Front(u),
         root'.tail \in Thread \cup {Null},
         \A c \in Thread : /\ FrontOf(c)' \in Thread \cup {Null}
                           /\ FrontOf(c)' # Null => FrontOf(c)' # root'.tail
  PROVE  OyamaLists'
<1>1. \A t \in Thread : Listed(t)' => /\ mem'[t].next = Null \/ (mem'[t].next \in Thread /\ Listed(mem[t].next)')
                                      /\ Front(t)' \/ \E u \in Thread : Listed(u)' /\ mem'[u].next = t
  <2> SUFFICES ASSUME NEW t \in Thread, Listed(t)
               PROVE  /\ mem'[t].next = Null \/ (mem'[t].next \in Thread /\ Listed(mem[t].next)')
                      /\ Front(t)' \/ \E u \in Thread : Listed(u)' /\ mem'[u].next = t
    OBVIOUS
  <2>1. /\ mem[t].next = Null \/ (mem[t].next \in Thread /\ Listed(mem[t].next))
        /\ Front(t) \/ \E u \in Thread : Listed(u) /\ mem[u].next = t
    BY DEF OyamaLists
  <2>2. mem'[t].next = mem[t].next
    OBVIOUS
  <2>3. mem[t].next \in Thread => \E u \in Thread : u = mem[t].next /\ u = mem'[t].next /\ (Listed(u)' <=> Listed(u))
    BY <2>2
  <2>4. mem[t].next \in Thread /\ Listed(mem[t].next) => Listed(mem[t].next)'
    <3>1. ASSUME NEW u \in Thread, u = mem[t].next, Listed(u) PROVE Listed(mem[t].next)'
      <4>1. Listed(u)' /\ u = mem'[t].next
        BY <2>2, <3>1
      <4> QED
        BY <4>1 DEF Listed
    <3> QED
      BY <3>1
  <2> QED
    BY <2>1, <2>2, <2>4
<1>2. \A t, u \in Thread : Listed(t)' /\ Listed(u)' /\ mem'[t].next = mem'[u].next /\ mem'[t].next # Null => t = u
  BY DEF OyamaLists
<1>3. \A t \in Thread : Front(t)' => Listed(t)'
  BY DEF OyamaLists
<1>4. \A t, u \in Thread : Front(t)' /\ Listed(u)' => mem'[u].next # t
  BY DEF OyamaLists
<1>5. \E rank \in [Thread -> Nat] : \A t, u \in Thread :
        Listed(t)' /\ Listed(u)' /\ mem'[t].next = u => rank[t] < rank[u]
  <2>1. PICK rank \in [Thread -> Nat] : \A t, u \in Thread :
          Listed(t) /\ Listed(u) /\ mem[t].next = u => rank[t] < rank[u]
    BY DEF OyamaLists
  <2>2. \A t, u \in Thread : Listed(t)' /\ Listed(u)' /\ mem'[t].next = u => rank[t] < rank[u]
    BY <2>1
  <2> QED
    BY <2>2
<1> QED
  BY <1>1, <1>2, <1>3, <1>4, <1>5 DEF OyamaLists

(* A step that serves nobody and completes no request. *)
LEMMA OyamaQuiet ==
  ASSUME prog = "oyamauobject", prog' = prog, CallsOK, OyamaInv, OyamaCallInv, NEW t \in Thread,
         NEW from \in OyamaLabel \ {"idle", "help", "complete"}, NEW to \in OyamaLabel \ {"idle", "complete"},
         Go(t, from, to), UNCHANGED calls, to = "insert" => from = "insert",
         \A u \in Thread : mem'[u].completed = mem[u].completed /\ mem'[u].arg_ret = mem[u].arg_ret,
         \A u \in Thread \ {t} : loc'[u].p = loc[u].p,
         to \in {"unlock", "return"} => mem[t].completed, to = "help" => loc'[t].p # Null
  PROVE  Effect(t) /\ \A u \in Thread : OyamaRequest(u)' /\ OyamaServing(u)'
<1>1. Effect(t)
  BY DEF Effect, Moves
<1>2. /\ pc[t] = from /\ pc'[t] = to /\ (\A u \in Thread \ {t} : pc'[u] = pc[u]) /\ call' = call
      /\ \A u \in Thread : OyamaRequest(u) /\ OyamaServing(u)
  BY OyamaFrame DEF Go, calls
<1>3. \A u \in Thread : /\ pc'[u] = "complete" <=> pc[u] = "complete"
                        /\ pc[u] = "complete" => loc'[u].p = loc[u].p
                        /\ pc'[u] = "idle" <=> pc[u] = "idle"
  <2>1. to # "complete" /\ from # "complete" /\ from # "idle" /\ to # "idle"
    OBVIOUS
  <2> QED
    BY <1>2, <2>1
<1>4. ASSUME NEW u \in Thread PROVE OyamaRequest(u)'
  <2>1. OyamaRequest(u) /\ mem'[u].completed = mem[u].completed /\ mem'[u].arg_ret = mem[u].arg_ret /\ call'[u] = call[u]
    BY <1>2
  <2>2. (\E c \in Thread : pc'[c] = "complete" /\ loc'[c].p = u) <=> \E c \in Thread : pc[c] = "complete" /\ loc[c].p = u
    BY <1>3
  <2>3. CASE u = t
    BY <1>2, <1>3, <2>1, <2>2, <2>3 DEF OyamaRequest
  <2>4. CASE u # t
    BY <1>2, <1>3, <2>1, <2>2, <2>4 DEF OyamaRequest
  <2> QED
    BY <2>3, <2>4
<1>5. ASSUME NEW u \in Thread PROVE OyamaServing(u)'
  <2>3. pc'[u] = "help" => loc'[u].p # Null
    BY <1>2 DEF OyamaServing
  <2> SUFFICES ASSUME pc[u] = "complete" PROVE OyamaServing(u)'
    BY <1>3, <2>3 DEF OyamaServing
  <2>1. PICK x \in Thread : x = loc[u].p /\ pc[x] # "idle" /\ ~mem[x].completed /\ call[x].st = "done"
    BY <1>2 DEF OyamaServing
  <2>2. x = loc'[u].p /\ pc'[x] # "idle" /\ ~mem'[x].completed /\ call'[x].st = "done"
    BY <1>2, <1>3, <2>1
  <2> QED
    BY <2>2, <2>3 DEF OyamaServing
<1> QED
  BY <1>1, <1>4, <1>5

(* A thread tries the lock, waits, or tries to insert once more; the combiner
   gives the lock back. *)
LEMMA OyamaPasses ==
  ASSUME prog = "oyamauobject", prog' = prog, CallsOK, OyamaInv, OyamaCallInv, NEW t \in Thread,
         Oy!TryLock(t) \/ Oy!Unlock(t) \/ Oy!Wait(t) \/ Oy!InsertAgain(t)
  PROVE  Effect(t) /\ OyamaCallInv'
<1>1. OyamaTypes /\ OyamaLists /\ OyamaRequest(t) /\ DOMAIN pc = Thread /\ DOMAIN root = {"lock", "tail"}
  BY OyamaFrame
<1>2. /\ UNCHANGED calls /\ loc' = loc /\ root'.tail = root.tail
      /\ \/ Go(t, "try", "sweep") /\ mem' = mem
         \/ Go(t, "try", "wait") /\ mem' = mem
         \/ Go(t, "unlock", "return") /\ mem' = mem
         \/ Go(t, "wait", "return") /\ mem' = mem /\ mem[t].completed
         \/ Go(t, "insert", "insert") /\ mem' = [mem EXCEPT ![t].next = root.tail]
  <2>1. CASE Oy!TryLock(t)
    BY <1>1, <2>1, OyamaHarness DEF Oy!TryLock, Oy!calls, calls
  <2>2. CASE Oy!Unlock(t)
    BY <1>1, <2>2, OyamaHarness DEF Oy!Unlock, Oy!calls, calls
  <2>3. CASE Oy!Wait(t)
    BY <1>1, <2>3, OyamaHarness DEF Oy!Wait, Oy!calls, calls
  <2>4. CASE Oy!InsertAgain(t)
    <3>1. pc' = pc /\ pc[t] = "insert" /\ pc \in [Thread -> OyamaLabel]
      BY <2>4, OyamaFrame DEF Oy!InsertAgain
    <3>2. Go(t, "insert", "insert")
      BY <3>1 DEF Go
    <3> QED
      BY <2>4, <3>2 DEF Oy!InsertAgain, Oy!calls, calls
  <2> QED
    BY <2>1, <2>2, <2>3, <2>4
<1>3. PICK from \in {"try", "unlock", "wait", "insert"}, to \in {"sweep", "wait", "return", "insert"} :
        /\ Go(t, from, to) /\ (to = "insert" <=> from = "insert")
        /\ to = "return" => mem[t].completed
  BY <1>1, <1>2 DEF OyamaRequest, Go
<1>4. /\ \A u \in Thread : mem'[u].completed = mem[u].completed /\ mem'[u].arg_ret = mem[u].arg_ret
      /\ \A u \in Thread : mem'[u].next = mem[u].next \/ (u = t /\ from = "insert")
  BY <1>1, <1>2, <1>3 DEF OyamaTypes, Go
<1>5. OyamaTypes'
  BY <1>1, <1>2 DEF OyamaTypes
<1>6. pc[t] = from /\ pc'[t] = to /\ (\A u \in Thread \ {t} : pc'[u] = pc[u]) /\ call' = call
  BY <1>1, <1>2, <1>3 DEF Go, calls
<1>7. OyamaLists'
  <2>1. \A u \in Thread : (Listed(u)' <=> Listed(u)) /\ FrontOf(u)' = FrontOf(u)
    BY <1>2, <1>3, <1>6 DEF Listed, FrontOf
  <2>2. \A u \in Thread : Front(u)' <=> Front(u)
    BY <1>2, <2>1 DEF Front
  <2>3. \A u \in Thread : Listed(u) => mem'[u].next = mem[u].next
    BY <1>4, <1>6 DEF Listed
  <2>4. root'.tail \in Thread \cup {Null}
        /\ \A c \in Thread : FrontOf(c)' \in Thread \cup {Null} /\ (FrontOf(c)' # Null => FrontOf(c)' # root'.tail)
    BY <1>1, <1>2, <2>1 DEF OyamaLists
  <2> QED
    BY <1>1, <2>1, <2>2, <2>3, <2>4, ListsStay
<1>8. Effect(t) /\ \A u \in Thread : OyamaRequest(u)' /\ OyamaServing(u)'
  <2>1. /\ from \in OyamaLabel \ {"idle", "help", "complete"} /\ to \in OyamaLabel \ {"idle", "complete"}
        /\ to \in {"unlock", "return"} => mem[t].completed
    BY <1>3 DEF OyamaLabel
  <2> QED
    BY <1>2, <1>3, <1>4, <2>1, OyamaQuiet
<1> QED
  BY <1>5, <1>7, <1>8 DEF OyamaCallInv

(* The lists end, so an empty list that everybody inserts into, with nothing
   taken from it, means that every listed request was served. *)
LEMMA NobodyListed ==
  ASSUME OyamaLists, \A t \in Thread : ~Front(t)
  PROVE  \A t \in Thread : ~Listed(t)
<1> SUFFICES ASSUME NEW t0 \in Thread, Listed(t0) PROVE FALSE
  OBVIOUS
<1>1. PICK rank \in [Thread -> Nat] : \A t, u \in Thread :
        Listed(t) /\ Listed(u) /\ mem[t].next = u => rank[t] < rank[u]
  BY DEF OyamaLists
<1> DEFINE R == {rank[t] : t \in {u \in Thread : Listed(u)}}
<1>2. PICK i \in R : \A j \in R : i <= j
  <2>1. R \subseteq Nat /\ rank[t0] \in R
    BY <1>1
  <2> HIDE DEF R
  <2> QED
    BY <2>1, Least
<1>3. PICK t \in Thread : Listed(t) /\ i = rank[t]
  OBVIOUS
<1>4. PICK u \in Thread : Listed(u) /\ mem[u].next = t
  BY <1>3 DEF OyamaLists
<1>5. rank[u] < rank[t] /\ rank[u] \in R /\ rank[u] \in Nat /\ rank[t] \in Nat
  BY <1>1, <1>3, <1>4
<1> QED
  BY <1>2, <1>3, <1>5

(* The combiner takes the whole list, or is done. *)
LEMMA OyamaSweeps ==
  ASSUME prog = "oyamauobject", prog' = prog, CallsOK, OyamaInv, OyamaCallInv, NEW t \in Thread, Oy!Sweep(t)
  PROVE  Effect(t) /\ OyamaCallInv'
<1>1. /\ OyamaTypes /\ OyamaLists /\ DOMAIN pc = Thread /\ DOMAIN root = {"lock", "tail"}
      /\ \A u \in Thread : OyamaRequest(u) /\ CallOK(u)
  BY OyamaFrame
<1>2. PICK to \in {"unlock", "help"} :
        /\ Go(t, "sweep", to) /\ (to = "unlock" <=> root.tail = Null)
        /\ loc' = [loc EXCEPT ![t].p = root.tail] /\ root' = [root EXCEPT !.tail = Null]
        /\ mem' = mem /\ UNCHANGED calls
  BY OyamaHarness DEF Oy!Sweep, Oy!calls, calls, Oy!Null, Null
<1>3. pc[t] = "sweep" /\ pc'[t] = to /\ (\A u \in Thread \ {t} : pc'[u] = pc[u]) /\ call' = call
  BY <1>1, <1>2 DEF Go, calls
<1>4. /\ OyamaTypes' /\ root'.tail = Null
      /\ loc'[t].p = root.tail /\ \A u \in Thread \ {t} : loc'[u] = loc[u]
  BY <1>1, <1>2 DEF OyamaTypes
<1>5. \A u \in Thread \ {t} : pc[u] # "help" /\ pc[u] # "complete"
  BY <1>3, OyamaFrame
<1>6. /\ \A u \in Thread : FrontOf(u) = Null
      /\ \A u \in Thread \ {t} : FrontOf(u)' = Null
      /\ FrontOf(t)' = root.tail
  BY <1>2, <1>3, <1>4, <1>5 DEF FrontOf
<1>7. OyamaLists'
  <2>1. \A u \in Thread : Listed(u)' <=> Listed(u)
    BY <1>2, <1>3 DEF Listed
  <2>2. \A u \in Thread : Front(u)' <=> Front(u)
    BY <1>4, <1>6, OyamaFrame DEF Front
  <2>3. root'.tail \in Thread \cup {Null}
        /\ \A c \in Thread : FrontOf(c)' \in Thread \cup {Null} /\ (FrontOf(c)' # Null => FrontOf(c)' # root'.tail)
    BY <1>1, <1>4, <1>6 DEF OyamaLists
  <2> QED
    BY <1>1, <1>2, <2>1, <2>2, <2>3, ListsStay
<1>8. to = "unlock" => mem[t].completed
  <2> SUFFICES ASSUME root.tail = Null PROVE mem[t].completed
    BY <1>2
  <2>1. \A u \in Thread : ~Front(u)
    BY <1>6, OyamaFrame DEF Front
  <2>2. ~Listed(t)
    BY <1>1, <2>1, NobodyListed
  <2>3. call[t].st = "done"
    BY <1>1, <1>3, <2>2 DEF Listed, CallOK
  <2>4. \A c \in Thread : pc[c] # "complete"
    BY <1>3, <1>5
  <2> QED
    BY <1>1, <1>3, <2>3, <2>4 DEF OyamaRequest
<1>9. Effect(t) /\ \A u \in Thread : OyamaRequest(u)' /\ OyamaServing(u)'
  <2>1. /\ "sweep" \in OyamaLabel \ {"idle", "help", "complete"} /\ to \in OyamaLabel \ {"idle", "complete"}
        /\ to \in {"unlock", "return"} => mem[t].completed
        /\ to = "help" => loc'[t].p # Null
    BY <1>2, <1>4, <1>8 DEF OyamaLabel
  <2>2. \A u \in Thread : mem'[u].completed = mem[u].completed /\ mem'[u].arg_ret = mem[u].arg_ret
    BY <1>2
  <2>3. \A u \in Thread \ {t} : loc'[u].p = loc[u].p
    BY <1>4
  <2> QED
    BY <1>2, <2>1, <2>2, <2>3, OyamaQuiet
<1> QED
  BY <1>4, <1>7, <1>9 DEF OyamaCallInv

(* A request goes to the front of the list. *)
LEMMA OyamaInserts ==
  ASSUME prog = "oyamauobject", prog' = prog, CallsOK, OyamaInv, OyamaCallInv, NEW t \in Thread, Oy!Insert(t)
  PROVE  Effect(t) /\ OyamaCallInv'
<1>1. /\ OyamaTypes /\ OyamaLists /\ OyamaRequest(t) /\ CallOK(t) /\ DOMAIN pc = Thread /\ DOMAIN root = {"lock", "tail"}
      /\ Null \notin Thread
  BY OyamaFrame
<1>2. /\ root.tail = mem[t].next /\ Go(t, "insert", "try") /\ UNCHANGED calls
      /\ root' = [root EXCEPT !.tail = t] /\ loc' = loc /\ mem' = mem
  BY OyamaHarness DEF Oy!Insert, Oy!calls, calls
<1>3. /\ pc[t] = "insert" /\ pc'[t] = "try" /\ (\A u \in Thread \ {t} : pc'[u] = pc[u]) /\ call' = call
      /\ root'.tail = t
  BY <1>1, <1>2 DEF Go, calls
<1>4. ~Listed(t) /\ Listed(t)' /\ \A u \in Thread \ {t} : Listed(u)' <=> Listed(u)
  BY <1>1, <1>3 DEF Listed, OyamaRequest, CallOK
<1>5. \A u \in Thread : FrontOf(u)' = FrontOf(u)
  BY <1>2, <1>3 DEF FrontOf
<1>6. \A u \in Thread : /\ Front(u)' <=> u = t \/ \E c \in Thread : u = FrontOf(c)
                        /\ Front(u) <=> u = root.tail \/ \E c \in Thread : u = FrontOf(c)
  BY <1>3, <1>5 DEF Front
<1> DEFINE h == root.tail
<1>7. /\ h \in Thread \cup {Null} /\ h # t /\ mem[t].next = h
      /\ h # Null => Listed(h) /\ Front(h)
  BY <1>1, <1>2, <1>4, <1>6 DEF OyamaLists
<1>8. \A u \in Thread : Listed(u) => mem[u].next # t /\ (h # Null => mem[u].next # h)
  BY <1>1, <1>4, <1>7 DEF OyamaLists
<1> HIDE DEF h
<1>9. OyamaLists'
  <2>1. ASSUME NEW u \in Thread, Listed(u)'
        PROVE  /\ mem[u].next = Null \/ (mem[u].next \in Thread /\ Listed(mem[u].next)')
               /\ Front(u)' \/ \E w \in Thread : Listed(w)' /\ mem[w].next = u
    <3>1. \A x \in Thread : Listed(x) => Listed(x)'
      BY <1>4
    <3>2. CASE u = t
      <4>1. mem[t].next = Null \/ (mem[t].next \in Thread /\ Listed(mem[t].next)')
        <5>1. ASSUME NEW x \in Thread, x = mem[t].next, Listed(x) PROVE Listed(mem[t].next)'
          <6>1. Listed(x)' /\ x = mem'[t].next
            BY <1>2, <3>1, <5>1
          <6> QED
            BY <6>1 DEF Listed
        <5>2. mem[t].next \in Thread \cup {Null} /\ (mem[t].next # Null => Listed(mem[t].next))
          BY <1>7
        <5> QED
          BY <5>1, <5>2
      <4>2. Front(t)'
        BY <1>6
      <4> QED
        BY <3>2, <4>1, <4>2
    <3>3. CASE u # t
      <4>1. /\ mem[u].next = Null \/ (mem[u].next \in Thread /\ Listed(mem[u].next))
            /\ Front(u) \/ \E w \in Thread : Listed(w) /\ mem[w].next = u
        BY <1>1, <1>4, <2>1, <3>3 DEF OyamaLists
      <4>2. mem[u].next = Null \/ (mem[u].next \in Thread /\ Listed(mem[u].next)')
        <5>1. ASSUME NEW x \in Thread, x = mem[u].next, Listed(x) PROVE Listed(mem[u].next)'
          <6>1. Listed(x)' /\ x = mem'[u].next
            BY <1>2, <3>1, <5>1
          <6> QED
            BY <6>1 DEF Listed
        <5> QED
          BY <4>1, <5>1
      <4>3. CASE Front(u)
        <5>1. u = h => mem[t].next = u /\ Listed(t)'
          BY <1>4, <1>7
        <5> QED
          BY <1>6, <4>2, <4>3, <5>1 DEF h
      <4>4. CASE \E w \in Thread : Listed(w) /\ mem[w].next = u
        BY <3>1, <4>2, <4>4
      <4> QED
        BY <4>1, <4>3, <4>4
    <3> QED
      BY <3>2, <3>3
  <2>2. \A u, w \in Thread : Listed(u)' /\ Listed(w)' /\ mem[u].next = mem[w].next /\ mem[u].next # Null => u = w
    <3>1. \A u, w \in Thread : Listed(u) /\ Listed(w) /\ mem[u].next = mem[w].next /\ mem[u].next # Null => u = w
      BY <1>1 DEF OyamaLists
    <3> QED
      BY <1>4, <1>7, <1>8, <3>1
  <2>3. /\ root'.tail \in Thread \cup {Null}
        /\ \A c \in Thread : FrontOf(c)' \in Thread \cup {Null} /\ FrontOf(c)' # t
    <3>1. \A c \in Thread : FrontOf(c) \in Thread => Listed(FrontOf(c))
      <4> SUFFICES ASSUME NEW c \in Thread, NEW x \in Thread, x = FrontOf(c) PROVE Listed(x)
        OBVIOUS
      <4>1. Front(x)
        BY <1>6
      <4> QED
        BY <1>1, <4>1 DEF OyamaLists
    <3>2. \A c \in Thread : FrontOf(c) \in Thread \cup {Null}
      BY <1>1 DEF OyamaLists
    <3>3. \A c \in Thread : FrontOf(c) # t
      BY <1>4, <3>1
    <3> QED
      BY <1>3, <1>5, <3>2, <3>3
  <2>4. \A u \in Thread : Front(u)' => Listed(u)'
    BY <1>1, <1>4, <1>6 DEF OyamaLists
  <2>5. ASSUME NEW u \in Thread, NEW w \in Thread, Front(u)', Listed(w)' PROVE mem[w].next # u
    <3>1. CASE u = t
      BY <1>4, <1>7, <1>8, <2>5, <3>1
    <3>2. CASE u # t
      <4>1. PICK c \in Thread : u = FrontOf(c)
        BY <1>6, <2>5, <3>2
      <4>2. u # h
        BY <1>1, <1>5, <4>1 DEF OyamaLists, h
      <4>3. Front(u)
        BY <1>6, <4>1
      <4>4. w # t => mem[w].next # u
        BY <1>1, <1>4, <2>5, <4>3 DEF OyamaLists
      <4> QED
        BY <1>7, <4>2, <4>4
    <3> QED
      BY <3>1, <3>2
  <2>6. \E rank \in [Thread -> Nat] : \A u, w \in Thread :
          Listed(u)' /\ Listed(w)' /\ mem[u].next = w => rank[u] < rank[w]
    <3>1. PICK rank \in [Thread -> Nat] : \A u, w \in Thread :
            Listed(u) /\ Listed(w) /\ mem[u].next = w => rank[u] < rank[w]
      BY <1>1 DEF OyamaLists
    <3> DEFINE more == [u \in Thread |-> IF u = t THEN 0 ELSE rank[u] + 1]
    <3>2. more \in [Thread -> Nat]
      OBVIOUS
    <3>3. \A u, w \in Thread : Listed(u)' /\ Listed(w)' /\ mem[u].next = w => more[u] < more[w]
      <4> SUFFICES ASSUME NEW u \in Thread, NEW w \in Thread, Listed(u)', Listed(w)', mem[u].next = w
                   PROVE  more[u] < more[w]
        OBVIOUS
      <4>1. w # t
        BY <1>4, <1>7, <1>8
      <4>2. CASE u = t
        BY <4>1, <4>2
      <4>3. CASE u # t
        <5>1. rank[u] < rank[w] /\ rank[u] \in Nat /\ rank[w] \in Nat
          BY <1>4, <3>1, <4>1, <4>3
        <5> QED
          BY <4>1, <4>3, <5>1
      <4> QED
        BY <4>2, <4>3
    <3> QED
      BY <3>2, <3>3
  <2> QED
    BY <1>2, <1>3, <2>1, <2>2, <2>3, <2>4, <2>5, <2>6 DEF OyamaLists
<1>10. OyamaTypes'
  BY <1>1, <1>2 DEF OyamaTypes
<1>11. Effect(t) /\ \A u \in Thread : OyamaRequest(u)' /\ OyamaServing(u)'
  <2>1. "insert" \in OyamaLabel \ {"idle", "help", "complete"} /\ "try" \in OyamaLabel \ {"idle", "complete"}
    BY DEF OyamaLabel
  <2> QED
    BY <1>2, <2>1, OyamaQuiet
<1> QED
  BY <1>9, <1>10, <1>11 DEF OyamaCallInv

(* A request that was served leaves the list at its front. *)
LEMMA OyamaServe ==
  ASSUME prog = "oyamauobject", prog' = prog, CallsOK, OyamaInv, OyamaCallInv, NEW t \in Thread, Oy!Help(t)
  PROVE  Effect(t) /\ OyamaCallInv'
<1>1. /\ OyamaTypes /\ OyamaLists /\ DOMAIN pc = Thread /\ DOMAIN call = Thread /\ Null \notin Thread
      /\ \A u \in Thread : OyamaRequest(u) /\ OyamaServing(u) /\ CallOK(u) /\ DOMAIN call[u] = {"st", "op", "arg", "ret"}
  BY OyamaFrame
<1>2. pc[t] = "help"
  BY OyamaHarness DEF Oy!Help, Go
<1>3. PICK x \in Thread : x = loc[t].p /\ Front(x) /\ Listed(x)
  <2>1. FrontOf(t) = loc[t].p
    BY <1>2 DEF FrontOf
  <2>2. loc[t].p \in Thread
    BY <1>1, <1>2, <2>1 DEF OyamaLists, OyamaServing
  <2>3. PICK x \in Thread : x = loc[t].p
    BY <2>2
  <2>4. Front(x)
    BY <2>1, <2>3 DEF Front
  <2> QED
    BY <1>1, <2>3, <2>4 DEF OyamaLists
<1>4. PICK n : n = mem[x].next
  OBVIOUS
<1>5. /\ call[x].st = "asked" /\ pc[x] # "idle" /\ mem[x].pid = x /\ mem[x].arg_ret = call[x].arg
      /\ call[t].op \in Ops /\ Ops = {"fam"} /\ call[x].op = "fam" /\ call[t].op = "fam"
  <2>1. Ops = {"fam"}
    BY DEF Ops, Stacks, Queues
  <2>2. call[x].st = "asked" /\ pc[x] # "idle"
    BY <1>3 DEF Listed
  <2> QED
    BY <1>1, <1>2, <2>1, <2>2 DEF OyamaTypes, OyamaRequest, CallOK
<1>6. PICK r : r = Object!Serial(obj, "fam", call[x].arg)[2] /\ Outcome("fam", x, call[x].arg) = r
  BY DEF Outcome
<1>7. /\ Go(t, "help", "complete")
      /\ loc' = [loc EXCEPT ![t].next = n]
      /\ Perform("fam", x, call[x].arg)
      /\ mem' = [mem EXCEPT ![x].arg_ret = r]
      /\ root' = root
  BY <1>3, <1>4, <1>5, <1>6, OyamaHarness DEF Oy!Help
<1>8. Effect(t)
  BY <1>5, <1>7 DEF Effect, Serves
<1>9. /\ pc'[t] = "complete" /\ \A u \in Thread \ {t} : pc'[u] = pc[u]
      /\ call'[x].st = "done" /\ call'[x].ret = r /\ \A u \in Thread \ {x} : call'[u] = call[u]
      /\ loc'[t].p = x /\ loc'[t].next = n /\ \A u \in Thread \ {t} : loc'[u] = loc[u]
      /\ mem'[x].arg_ret = r /\ \A u \in Thread \ {x} : mem'[u] = mem[u]
      /\ \A u \in Thread : mem'[u].completed = mem[u].completed /\ mem'[u].next = mem[u].next
      /\ OyamaTypes'
  <2>1. /\ pc'[t] = "complete" /\ \A u \in Thread \ {t} : pc'[u] = pc[u]
        /\ call'[x].st = "done" /\ call'[x].ret = r /\ \A u \in Thread \ {x} : call'[u] = call[u]
    <3>1. call' = [call EXCEPT ![x].st = "done", ![x].ret = r]
      BY <1>6, <1>7 DEF Perform
    <3>2. call'[x].st = "done" /\ call'[x].ret = r /\ \A u \in Thread \ {x} : call'[u] = call[u]
      BY <1>1, <3>1
    <3> QED
      BY <1>1, <1>7, <3>2 DEF Go
  <2>2. /\ loc'[t].p = x /\ loc'[t].next = n /\ DOMAIN loc'[t] = {"p", "next"}
        /\ \A u \in Thread \ {t} : loc'[u] = loc[u]
        /\ DOMAIN loc' = Thread
    BY <1>1, <1>3, <1>7 DEF OyamaTypes
  <2>3. /\ mem'[x].arg_ret = r /\ \A u \in Thread \ {x} : mem'[u] = mem[u]
        /\ mem'[x].completed = mem[x].completed /\ mem'[x].next = mem[x].next /\ mem'[x].pid = mem[x].pid
        /\ DOMAIN mem'[x] = DOMAIN mem[x] /\ DOMAIN mem' = Thread
    BY <1>1, <1>7 DEF OyamaTypes
  <2>4. \A u \in Thread : mem'[u].completed = mem[u].completed /\ mem'[u].next = mem[u].next
    BY <2>3
  <2>5. OyamaTypes'
    BY <1>1, <2>2, <2>3 DEF OyamaTypes
  <2> QED
    BY <2>1, <2>2, <2>3, <2>4, <2>5
<1>10. \A u \in Thread : pc[u] # "complete" /\ (u # t => pc[u] # "help" /\ pc'[u] # "complete" /\ pc'[u] # "help")
  BY <1>2, <1>9, OyamaFrame
<1>11. /\ \A u \in Thread : Listed(u)' <=> Listed(u) /\ u # x
       /\ FrontOf(t) = x /\ FrontOf(t)' = n
       /\ \A u \in Thread \ {t} : FrontOf(u) = Null /\ FrontOf(u)' = Null
  BY <1>2, <1>3, <1>9, <1>10 DEF Listed, FrontOf
<1>12. /\ \A u \in Thread : Front(u)' <=> u = root.tail \/ u = n
       /\ \A u \in Thread : Front(u) <=> u = root.tail \/ u = x
  BY <1>1, <1>7, <1>11 DEF Front
<1>13. /\ n = Null \/ (n \in Thread /\ Listed(n))
       /\ \A u \in Thread : Listed(u) /\ mem[u].next = n /\ n # Null => u = x
       /\ \A u \in Thread : Listed(u) => mem[u].next # x
       /\ n # x
  <2>1. mem[x].next = Null \/ (mem[x].next \in Thread /\ Listed(mem[x].next))
    BY <1>1, <1>3 DEF OyamaLists
  <2>2. n = Null \/ (n \in Thread /\ Listed(n))
    BY <1>4, <2>1
  <2>3. \A u \in Thread : Listed(u) => mem[u].next # x
    BY <1>1, <1>3 DEF OyamaLists
  <2>4. \A u \in Thread : Listed(u) /\ mem[u].next = n /\ n # Null => u = x
    BY <1>1, <1>3, <1>4 DEF OyamaLists
  <2> QED
    BY <1>3, <1>4, <2>2, <2>3, <2>4
<1>14. /\ root.tail \in Thread \cup {Null} /\ root.tail # x
       /\ n # Null => n # root.tail
  <2>1. root.tail \in Thread \cup {Null} /\ root.tail # x
    BY <1>1, <1>11 DEF OyamaLists
  <2>2. ASSUME n # Null, n = root.tail PROVE FALSE
    <3>1. Front(n) /\ n \in Thread
      BY <1>12, <1>13, <2>2
    <3> QED
      BY <1>1, <1>3, <1>4, <3>1 DEF OyamaLists
  <2> QED
    BY <2>1, <2>2
<1>15. OyamaLists'
  <2>1. ASSUME NEW u \in Thread, Listed(u)'
        PROVE  /\ mem'[u].next = Null \/ (mem'[u].next \in Thread /\ Listed(mem[u].next)')
               /\ Front(u)' \/ \E w \in Thread : Listed(w)' /\ mem'[w].next = u
    <3>1. /\ mem[u].next = Null \/ (mem[u].next \in Thread /\ Listed(mem[u].next))
          /\ Front(u) \/ \E w \in Thread : Listed(w) /\ mem[w].next = u
          /\ Listed(u) /\ u # x
      BY <1>1, <1>11, <2>1 DEF OyamaLists
    <3>2. mem'[u].next = Null \/ (mem'[u].next \in Thread /\ Listed(mem[u].next)')
      <4>1. ASSUME NEW y \in Thread, y = mem[u].next, Listed(y) PROVE Listed(mem[u].next)'
        <5>1. Listed(y)' /\ y = mem'[u].next
          BY <1>9, <1>11, <1>13, <3>1, <4>1
        <5> QED
          BY <5>1 DEF Listed
      <4> QED
        BY <1>9, <3>1, <4>1
    <3>3. CASE Front(u)
      BY <1>12, <3>1, <3>2, <3>3
    <3>4. CASE \E w \in Thread : Listed(w) /\ mem[w].next = u
      <4>1. PICK w \in Thread : Listed(w) /\ mem[w].next = u
        BY <3>4
      <4>2. w = x => u = n
        BY <1>4, <4>1
      <4>3. w # x => Listed(w)' /\ mem'[w].next = u
        BY <1>9, <1>11, <4>1
      <4> QED
        BY <1>12, <3>2, <4>2, <4>3
    <3> QED
      BY <3>1, <3>3, <3>4
  <2>2. \A u, w \in Thread : Listed(u)' /\ Listed(w)' /\ mem'[u].next = mem'[w].next /\ mem'[u].next # Null => u = w
    BY <1>1, <1>9, <1>11 DEF OyamaLists
  <2>3. /\ root'.tail \in Thread \cup {Null}
        /\ \A c \in Thread : FrontOf(c)' \in Thread \cup {Null}
        /\ \A c \in Thread : FrontOf(c)' # Null => FrontOf(c)' # root'.tail
    BY <1>7, <1>11, <1>13, <1>14
  <2>4. \A u \in Thread : Front(u)' => Listed(u)'
    <3>1. \A u \in Thread : Front(u) => Listed(u)
      BY <1>1 DEF OyamaLists
    <3> SUFFICES ASSUME NEW u \in Thread, Front(u)' PROVE Listed(u)'
      OBVIOUS
    <3>2. CASE u = root.tail
      <4>1. Listed(u) /\ u # x
        BY <1>12, <1>14, <3>1, <3>2
      <4> QED
        BY <1>11, <4>1
    <3>3. CASE u = n
      <4>1. Listed(u) /\ u # x
        BY <1>1, <1>13, <3>3
      <4> QED
        BY <1>11, <4>1
    <3> QED
      BY <1>12, <3>2, <3>3
  <2>5. ASSUME NEW u \in Thread, NEW w \in Thread, Front(u)', Listed(w)' PROVE mem'[w].next # u
    <3>1. CASE u = root.tail
      BY <1>1, <1>9, <1>11, <1>12, <2>5, <3>1 DEF OyamaLists
    <3>2. CASE u = n
      BY <1>1, <1>9, <1>11, <1>13, <2>5, <3>2
    <3> QED
      BY <1>12, <2>5, <3>1, <3>2
  <2>6. \E rank \in [Thread -> Nat] : \A u, w \in Thread :
          Listed(u)' /\ Listed(w)' /\ mem'[u].next = w => rank[u] < rank[w]
    <3>1. PICK rank \in [Thread -> Nat] : \A u, w \in Thread :
            Listed(u) /\ Listed(w) /\ mem[u].next = w => rank[u] < rank[w]
      BY <1>1 DEF OyamaLists
    <3>2. \A u, w \in Thread : Listed(u)' /\ Listed(w)' /\ mem'[u].next = w => rank[u] < rank[w]
      BY <1>9, <1>11, <3>1
    <3> QED
      BY <3>2
  <2> QED
    BY <2>1, <2>2, <2>3, <2>4, <2>5, <2>6 DEF OyamaLists
<1>16. ASSUME NEW u \in Thread PROVE OyamaRequest(u)'
  <2>1. OyamaRequest(u) /\ (pc'[u] = "idle" <=> pc[u] = "idle") /\ pc'[t] = "complete" /\ loc'[t].p = x
    BY <1>1, <1>2, <1>9
  <2>2. CASE u = x
    <3>1. pc[x] \notin {"idle", "insert", "unlock", "return"}
      BY <1>1, <1>3, <1>5 DEF Listed, OyamaRequest
    <3>2. pc'[x] \notin {"idle", "insert", "unlock", "return"}
      BY <1>9, <3>1
    <3> QED
      BY <1>9, <2>1, <2>2, <3>2 DEF OyamaRequest
  <2>3. CASE u # x
    <3>1. call'[u] = call[u] /\ mem'[u] = mem[u]
      BY <1>9, <2>3
    <3>2. pc'[u] \in {"unlock", "return"} => pc[u] \in {"unlock", "return"}
      BY <1>9
    <3>3. pc'[u] = "insert" => pc[u] = "insert"
      BY <1>9
    <3> QED
      BY <1>10, <2>1, <3>1, <3>2, <3>3 DEF OyamaRequest
  <2> QED
    BY <2>2, <2>3
<1>17. ASSUME NEW u \in Thread PROVE OyamaServing(u)'
  <2>1. CASE u # t
    BY <1>10, <2>1 DEF OyamaServing
  <2>2. CASE u = t
    <3>1. x = loc'[u].p /\ pc'[x] # "idle" /\ ~mem'[x].completed /\ call'[x].st = "done"
      BY <1>1, <1>5, <1>9, <2>2 DEF OyamaRequest
    <3>2. pc'[u] # "help"
      BY <1>9, <2>2
    <3> QED
      BY <3>1, <3>2 DEF OyamaServing
  <2> QED
    BY <2>1, <2>2
<1> QED
  BY <1>8, <1>9, <1>15, <1>16, <1>17 DEF OyamaCallInv

(* The node of a request that was served is its owner's again. *)
LEMMA OyamaCompletes ==
  ASSUME prog = "oyamauobject", prog' = prog, CallsOK, OyamaInv, OyamaCallInv, NEW t \in Thread, Oy!Complete(t)
  PROVE  Effect(t) /\ OyamaCallInv'
<1>1. /\ OyamaTypes /\ OyamaLists /\ DOMAIN pc = Thread /\ DOMAIN call = Thread /\ Null \notin Thread
      /\ \A u \in Thread : OyamaRequest(u) /\ OyamaServing(u) /\ CallOK(u)
  BY OyamaFrame
<1>2. pc[t] = "complete"
  BY OyamaHarness DEF Oy!Complete, Go
<1>3. PICK x \in Thread : x = loc[t].p /\ pc[x] # "idle" /\ ~mem[x].completed /\ call[x].st = "done"
  BY <1>1, <1>2 DEF OyamaServing
<1>4. PICK n : n = loc[t].next
  OBVIOUS
<1>5. PICK to \in {"sweep", "help"} :
        /\ Go(t, "complete", to) /\ (to = "sweep" <=> n = Null)
        /\ mem' = [mem EXCEPT ![x].completed = TRUE]
        /\ loc' = [loc EXCEPT ![t] = [p |-> n, next |-> Null]]
        /\ root' = root /\ UNCHANGED calls
  BY <1>3, <1>4, OyamaHarness DEF Oy!Complete, Oy!calls, calls, Oy!Null, Null
<1>6. /\ pc'[t] = to /\ (\A u \in Thread \ {t} : pc'[u] = pc[u]) /\ call' = call
      /\ loc'[t].p = n /\ \A u \in Thread \ {t} : loc'[u] = loc[u]
      /\ mem'[x].completed /\ \A u \in Thread \ {x} : mem'[u] = mem[u]
      /\ \A u \in Thread : mem'[u].next = mem[u].next /\ mem'[u].arg_ret = mem[u].arg_ret
      /\ OyamaTypes'
  <2>1. pc'[t] = to /\ (\A u \in Thread \ {t} : pc'[u] = pc[u]) /\ call' = call
    BY <1>1, <1>5 DEF Go, calls
  <2>2. /\ loc'[t].p = n /\ (\A u \in Thread \ {t} : loc'[u] = loc[u])
        /\ DOMAIN loc'[t] = {"p", "next"} /\ DOMAIN loc' = Thread
    BY <1>1, <1>5 DEF OyamaTypes
  <2>3. /\ mem'[x].completed /\ (\A u \in Thread \ {x} : mem'[u] = mem[u])
        /\ mem'[x].arg_ret = mem[x].arg_ret /\ mem'[x].next = mem[x].next /\ mem'[x].pid = mem[x].pid
        /\ DOMAIN mem'[x] = DOMAIN mem[x] /\ DOMAIN mem' = Thread
    BY <1>1, <1>5 DEF OyamaTypes
  <2>4. \A u \in Thread : mem'[u].next = mem[u].next /\ mem'[u].arg_ret = mem[u].arg_ret
    BY <2>3
  <2>5. OyamaTypes'
    BY <1>1, <2>2, <2>3 DEF OyamaTypes
  <2> QED
    BY <2>1, <2>2, <2>3, <2>4, <2>5
<1>7. Effect(t)
  BY <1>5 DEF Effect, Moves
<1>8. \A u \in Thread \ {t} : /\ pc[u] \notin {"sweep", "help", "complete", "unlock"}
                              /\ pc'[u] \notin {"sweep", "help", "complete", "unlock"}
  BY <1>2, <1>6, OyamaFrame
<1>9. OyamaLists'
  <2>1. \A u \in Thread : Listed(u)' <=> Listed(u)
    BY <1>2, <1>6 DEF Listed
  <2>2. \A u \in Thread : FrontOf(u)' = FrontOf(u)
    <3>1. FrontOf(t) = n
      BY <1>2, <1>4 DEF FrontOf
    <3>2. FrontOf(t)' = n
      BY <1>5, <1>6 DEF FrontOf
    <3>3. \A u \in Thread \ {t} : FrontOf(u) = Null /\ FrontOf(u)' = Null
      BY <1>8 DEF FrontOf
    <3> QED
      BY <3>1, <3>2, <3>3
  <2>3. \A u \in Thread : Front(u)' <=> Front(u)
    BY <1>5, <2>2 DEF Front
  <2>4. root'.tail \in Thread \cup {Null}
        /\ \A c \in Thread : FrontOf(c)' \in Thread \cup {Null} /\ (FrontOf(c)' # Null => FrontOf(c)' # root'.tail)
    BY <1>1, <1>5, <2>2 DEF OyamaLists
  <2> QED
    BY <1>1, <1>6, <2>1, <2>3, <2>4, ListsStay
<1>10. ASSUME NEW u \in Thread PROVE OyamaRequest(u)'
  <2>1. OyamaRequest(u) /\ (pc'[u] = "idle" <=> pc[u] = "idle") /\ call'[u] = call[u] /\ mem'[u].arg_ret = mem[u].arg_ret
    BY <1>1, <1>2, <1>6
  <2>2. CASE u = x
    <3>1. pc'[x] = "insert" => pc[x] = "insert"
      BY <1>6
    <3> QED
      BY <1>3, <1>6, <2>1, <2>2, <3>1 DEF OyamaRequest
  <2>3. CASE u # x
    <3>1. mem'[u] = mem[u]
      BY <1>6, <2>3
    <3>2. pc'[u] \in {"insert", "unlock", "return"} => pc'[u] = pc[u]
      BY <1>6
    <3>3. (\E c \in Thread : pc[c] = "complete" /\ loc[c].p = u) => FALSE
      BY <1>3, <1>8, <2>3
    <3> QED
      BY <2>1, <3>1, <3>2, <3>3 DEF OyamaRequest
  <2> QED
    BY <2>2, <2>3
<1>11. ASSUME NEW u \in Thread PROVE OyamaServing(u)'
  <2>1. CASE u # t
    BY <1>8, <2>1 DEF OyamaServing
  <2>2. CASE u = t
    BY <1>5, <1>6, <2>2 DEF OyamaServing
  <2> QED
    BY <2>1, <2>2
<1> QED
  BY <1>6, <1>7, <1>9, <1>10, <1>11 DEF OyamaCallInv

(* A thread asks, and takes its result from its own node. *)
LEMMA OyamaAsks ==
  ASSUME prog = "oyamauobject", prog' = prog, CallsOK, OyamaInv, OyamaCallInv, NEW t \in Thread,
         Oy!Announce(t) \/ Oy!ReturnResult(t)
  PROVE  Effect(t) /\ OyamaCallInv'
<1>1. /\ OyamaTypes /\ OyamaLists /\ DOMAIN pc = Thread /\ DOMAIN call = Thread
      /\ \A u \in Thread : OyamaRequest(u) /\ OyamaServing(u) /\ CallOK(u)
  BY OyamaFrame
<1>2. pc[t] \in {"idle", "return"} /\ (pc[t] = "return" => call[t].st = "done" /\ mem[t].completed)
  <2>1. CASE Oy!Announce(t)
    BY <2>1, OyamaHarness DEF Oy!Announce, Call, Go
  <2>2. CASE Oy!ReturnResult(t)
    <3>1. pc[t] = "return"
      BY <2>2, OyamaHarness DEF Oy!ReturnResult, Return, Go
    <3> QED
      BY <1>1, <3>1 DEF OyamaRequest, CallOK
  <2> QED
    BY <2>1, <2>2
<1>3. /\ Effect(t)
      /\ loc' = loc /\ root' = root
      /\ pc'[t] \in {"insert", "idle"} /\ \A u \in Thread \ {t} : pc'[u] = pc[u] /\ call'[u] = call[u] /\ mem'[u] = mem[u]
      /\ pc'[t] = "insert" => call'[t].st = "asked" /\ ~mem'[t].completed /\ mem'[t].arg_ret = call'[t].arg
      /\ DOMAIN mem' = Thread /\ DOMAIN mem'[t] = DOMAIN mem[t] /\ mem'[t].pid = mem[t].pid
  <2>1. CASE Oy!Announce(t)
    <3>1. /\ Call(t, "insert") /\ loc' = loc /\ root' = root
          /\ mem' = [mem EXCEPT ![t] = [@ EXCEPT !.arg_ret = call'[t].arg, !.completed = FALSE, !.next = root.tail]]
      BY <2>1, OyamaHarness DEF Oy!Announce
    <3>2. Effect(t)
      BY <3>1 DEF Effect, Asks
    <3>3. /\ pc'[t] = "insert" /\ \A u \in Thread \ {t} : pc'[u] = pc[u] /\ call'[u] = call[u]
          /\ call'[t].st = "asked"
      BY <1>1, <3>1 DEF Call, Go, Object!Idle
    <3>4. PICK a, h : a = call'[t].arg /\ h = root.tail
      OBVIOUS
    <3>5. mem' = [mem EXCEPT ![t] = [mem[t] EXCEPT !.arg_ret = a, !.completed = FALSE, !.next = h]]
      BY <3>1, <3>4
    <3>6. mem'[t] = [mem[t] EXCEPT !.arg_ret = a, !.completed = FALSE, !.next = h]
      BY <1>1, <3>5 DEF OyamaTypes
    <3>7. /\ ~mem'[t].completed /\ mem'[t].arg_ret = a
          /\ DOMAIN mem'[t] = DOMAIN mem[t] /\ mem'[t].pid = mem[t].pid
      BY <1>1, <3>6 DEF OyamaTypes
    <3>8. DOMAIN mem' = Thread /\ \A u \in Thread \ {t} : mem'[u] = mem[u]
      BY <1>1, <3>5 DEF OyamaTypes
    <3> QED
      BY <3>1, <3>2, <3>3, <3>4, <3>7, <3>8
  <2>2. CASE Oy!ReturnResult(t)
    <3>1. Return(t, "return", mem[t].arg_ret) /\ loc' = loc /\ mem' = mem /\ root' = root
      BY <2>2, OyamaHarness DEF Oy!ReturnResult
    <3>2. call[t].st = "done" /\ mem[t].arg_ret = call[t].ret
      BY <1>1, <1>2, <3>1 DEF Return, Go, OyamaRequest
    <3>3. Effect(t)
      BY <3>1, <3>2 DEF Effect, Returns
    <3> QED
      BY <1>1, <3>1, <3>3 DEF Return, Go, OyamaTypes
  <2> QED
    BY <2>1, <2>2
<1>4. OyamaTypes'
  BY <1>1, <1>3 DEF OyamaTypes
<1>5. OyamaLists'
  <2>1. ~Listed(t) /\ ~Listed(t)'
    BY <1>2, <1>3 DEF Listed
  <2>2. \A u \in Thread : Listed(u)' <=> Listed(u)
    BY <1>3, <2>1 DEF Listed
  <2>3. \A u \in Thread : FrontOf(u)' = FrontOf(u)
    BY <1>2, <1>3 DEF FrontOf
  <2>4. \A u \in Thread : Front(u)' <=> Front(u)
    BY <1>3, <2>3 DEF Front
  <2>5. \A u \in Thread : Listed(u) => mem'[u].next = mem[u].next
    BY <1>3, <2>1
  <2>6. root'.tail \in Thread \cup {Null}
        /\ \A c \in Thread : FrontOf(c)' \in Thread \cup {Null} /\ (FrontOf(c)' # Null => FrontOf(c)' # root'.tail)
    BY <1>1, <1>3, <2>3 DEF OyamaLists
  <2> QED
    BY <1>1, <2>2, <2>4, <2>5, <2>6, ListsStay
<1>6. \A c \in Thread : /\ pc'[c] = "complete" <=> pc[c] = "complete"
                        /\ pc[c] = "complete" => loc[c].p # t
  <2> SUFFICES ASSUME NEW c \in Thread
               PROVE  /\ pc'[c] = "complete" <=> pc[c] = "complete"
                      /\ pc[c] = "complete" => loc[c].p # t
    OBVIOUS
  <2>1. pc'[c] = "complete" <=> pc[c] = "complete"
    BY <1>2, <1>3
  <2>2. pc[c] = "complete" => loc[c].p # t
    BY <1>1, <1>2 DEF OyamaServing
  <2> QED
    BY <2>1, <2>2
<1>7. ASSUME NEW u \in Thread PROVE OyamaRequest(u)'
  <2>1. CASE u = t
    BY <1>3, <2>1 DEF OyamaRequest
  <2>2. CASE u # t
    <3>1. OyamaRequest(u) /\ pc'[u] = pc[u] /\ call'[u] = call[u] /\ mem'[u] = mem[u]
      BY <1>1, <1>3, <2>2
    <3> QED
      BY <1>3, <1>6, <3>1 DEF OyamaRequest
  <2> QED
    BY <2>1, <2>2
<1>8. ASSUME NEW u \in Thread PROVE OyamaServing(u)'
  <2>1. CASE u = t
    BY <1>3, <2>1 DEF OyamaServing
  <2>2. CASE u # t
    <3>1. pc'[u] = pc[u] /\ loc' = loc /\ OyamaServing(u)
      BY <1>1, <1>3, <2>2
    <3>2. ASSUME pc[u] = "complete"
          PROVE  /\ loc'[u].p \in Thread /\ pc'[loc'[u].p] # "idle"
                 /\ ~mem'[loc'[u].p].completed /\ call'[loc'[u].p].st = "done"
      <4>1. PICK x \in Thread : x = loc[u].p /\ pc[x] # "idle" /\ ~mem[x].completed /\ call[x].st = "done"
        BY <3>1, <3>2 DEF OyamaServing
      <4>2. x # t
        BY <1>6, <3>2, <4>1
      <4>3. pc'[x] = pc[x] /\ call'[x] = call[x] /\ mem'[x] = mem[x]
        BY <1>3, <4>2
      <4> QED
        BY <3>1, <4>1, <4>3
    <3> QED
      BY <3>1, <3>2 DEF OyamaServing
  <2> QED
    BY <2>1, <2>2
<1> QED
  BY <1>3, <1>4, <1>5, <1>7, <1>8 DEF OyamaCallInv

(* Every step of oyamauobject is one of the atomic object, or none. *)
LEMMA OyamaServes ==
  ASSUME prog = "oyamauobject", prog' = prog, CallsOK, OyamaInv, OyamaCallInv, NEW t \in Thread, Oy!OyamaStep(t)
  PROVE  Effect(t) /\ OyamaCallInv'
BY OyamaPasses, OyamaSweeps, OyamaInserts, OyamaServe, OyamaCompletes, OyamaAsks DEF Oy!OyamaStep
=============================================================================
