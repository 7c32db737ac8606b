------------------------- MODULE SynchAtomicProofs --------------------------
(***************************************************************************)
(* The proofs of SynchCallProofs for sim and simstack, and the theorems    *)
(* about all the programs.  In sim.c the object is one pointer to a        *)
(* record: a thread copies the record into one of its own, applies every   *)
(* announced request to it and swaps the pointer, so that a swap that      *)
(* succeeds applies a batch.  What has to be shown is that a record the    *)
(* swap installs was copied from the one it replaces, though records are   *)
(* used in rings, and that a request is in the batch exactly if it is      *)
(* announced and not applied.                                              *)
(***************************************************************************)
EXTENDS SynchCallProofs

-----------------------------------------------------------------------------
(* sim and simstack *)

SimPrograms == {"sim", "simstack"}
SimLabel == {"idle", "toggle", "read", "check", "copy", "snapshot", "recheck", "apply", "swap", "own", "result", "fetch"}
Trying   == {"check", "copy", "snapshot", "recheck", "apply", "swap"}
Building == {"recheck", "apply", "swap"}

Pool   == 0 .. LOCAL_POOL_SIZE - 1
Sp     == root.sp.obj
Toggles == root.a_toggles.obj
Rec(i) == mem.obj[i]
Record == 0 .. N_THREADS * LOCAL_POOL_SIZE
Own(t) == t * LOCAL_POOL_SIZE + loc[t].index.obj

(* The bit of a thread in a toggle vector is what the thread made it. *)
Agrees(t, S) == t \in S <=> loc[t].bit.obj

(* The record that a thread works from is still current. *)
Valid(t) == loc[t].old = Sp

(* A request that is due. *)
Due(t) == pc[t] \notin {"idle", "toggle"} /\ call[t].st = "asked"

SimTypes ==
  /\ pc \in [Thread -> SimLabel]
  /\ DOMAIN mem = {"obj"} /\ DOMAIN mem.obj = Record
  /\ \A i \in Record : DOMAIN Rec(i) = {"applied", "state", "ret"} /\ Rec(i).applied \subseteq Thread
                       /\ DOMAIN Rec(i).ret = Thread
  /\ DOMAIN root = {"sp", "a_toggles", "announce"} /\ DOMAIN root.sp = {"obj"} /\ DOMAIN root.a_toggles = {"obj"}
  /\ DOMAIN Sp = {"seq", "index"} /\ Sp.seq \in Nat /\ Sp.index \in Record /\ Toggles \subseteq Thread
  /\ DOMAIN root.announce = Thread
  /\ DOMAIN loc = Thread
  /\ \A t \in Thread :
       /\ DOMAIN loc[t] = {"bit", "index", "j", "old", "toggles"} /\ DOMAIN loc[t].bit = {"obj"} /\ DOMAIN loc[t].index = {"obj"}
       /\ loc[t].bit.obj \in BOOLEAN /\ loc[t].index.obj \in Pool /\ loc[t].toggles \subseteq Thread
       /\ loc[t].old.seq \in Int /\ loc[t].old.seq <= Sp.seq
       /\ pc[t] \in Trying \cup {"own", "fetch"} => loc[t].old.index \in Record
       /\ loc[t].j \in {0, 1, 2} /\ (pc[t] \in Trying \cup {"idle", "toggle", "read"} => loc[t].j # 2)

(* The bit in a_toggles runs ahead of the bit in the record while the request is due. *)
BitsOK(t) ==
  /\ pc[t] = "idle" => Agrees(t, Toggles) /\ Agrees(t, Rec(Sp.index).applied) /\ loc[t].j = 0
  /\ pc[t] = "toggle" => ~Agrees(t, Toggles) /\ ~Agrees(t, Rec(Sp.index).applied) /\ call[t].st = "asked" /\ loc[t].j = 0
  /\ pc[t] \notin {"idle", "toggle"} => Agrees(t, Toggles) /\ (call[t].st = "done" <=> Agrees(t, Rec(Sp.index).applied))
  /\ pc[t] \in {"own", "result", "fetch"} => call[t].st = "done"
  /\ pc[t] \in Trying \ {"check"} /\ Valid(t) => call[t].st = "asked"
  /\ pc[t] # "idle" => root.announce[t] = [op |-> call[t].op, arg |-> call[t].arg]

(* Record new is record old after the requests whose bits differ, each once,
   in some order. *)
Built(old, new, toggles) ==
  \E s \in Seq(Thread) :
    /\ \A i, j \in 1 .. Len(s) : s[i] = s[j] => i = j
    /\ \A x \in Thread : (\E i \in 1 .. Len(s) : s[i] = x) <=> ~(x \in old.applied <=> x \in toggles)
    /\ \A x \in Thread : (\A i \in 1 .. Len(s) : s[i] # x) => new.ret[x] = old.ret[x]
    /\ new.applied = toggles
    /\ \E u : /\ u[0] = old.state
              /\ \A i \in 1 .. Len(s) : LET r == Object!Serial(u[i - 1], call[s[i]].op, call[s[i]].arg)
                                        IN  u[i] = r[1] /\ new.ret[s[i]] = r[2]
              /\ new.state = u[Len(s)]

(* What a thread builds in its own record, while the record it started from is current. *)
BuildOK(t) ==
  /\ pc[t] \in Building => Agrees(t, loc[t].toggles)
  /\ pc[t] \in {"snapshot", "recheck", "apply"} /\ Valid(t) => Rec(Own(t)) = Rec(Sp.index)
  /\ pc[t] \in Building /\ Valid(t) =>
       \A x \in Thread : ~(x \in Rec(Sp.index).applied <=> x \in loc[t].toggles) => Due(x)
  /\ pc[t] = "swap" /\ Valid(t) => Built(Rec(Sp.index), Rec(Own(t)), loc[t].toggles)

(* After a swap that did not serve it, every try that may succeed serves a request that is due. *)
TriesOK(t) ==
  /\ Due(t) /\ pc[t] \in Trying \cup {"read"} /\ (loc[t].j = 1 \/ (pc[t] \in Trying /\ ~Valid(t))) =>
       \A w \in Thread : pc[w] \in Building /\ Valid(w) => Agrees(t, loc[w].toggles)
  /\ loc[t].j = 1 /\ pc[t] \in Trying /\ ~Valid(t) => call[t].st = "done"

(* The next record of a thread, and the one after that. *)
After1(o, k) == loc[o].index.obj = (k + 1) % LOCAL_POOL_SIZE
After2(o, k) == loc[o].index.obj = (k + 2) % LOCAL_POOL_SIZE
OwnerOK == \A o \in Thread, k \in Pool : Sp.index = o * LOCAL_POOL_SIZE + k => After1(o, k)
CheckOK(t) ==
  pc[t] = "check" /\ call[t].st = "asked" =>
    /\ ~Agrees(t, Rec(loc[t].old.index).applied)
    /\ \A o \in Thread, k \in Pool : loc[t].old.index = o * LOCAL_POOL_SIZE + k =>
         After1(o, k) \/ (After2(o, k) /\ ~Valid(t))

(* The records that hold the result of a thread, until it returns. *)
ResultIn(t, G) ==
  /\ Sp.index \in G
  /\ \A i \in G : Rec(i).ret[t] = call[t].ret /\ Agrees(t, Rec(i).applied)
  /\ \A w \in Thread \ {t} : Own(w) \in G =>
       /\ pc[w] \in Trying => loc[w].old.index \in G
       /\ pc[w] \in Building => Agrees(t, loc[w].toggles)
  /\ Own(t) \notin G
  /\ pc[t] \in {"own", "fetch"} => loc[t].old.index \in G
ResultOK(t) == call[t].st = "done" => \E G \in SUBSET Record : ResultIn(t, G)

SimCallInv ==
  /\ SimTypes /\ OwnerOK /\ Rec(Sp.index).state = obj
  /\ \A t \in Thread : BitsOK(t) /\ BuildOK(t) /\ TriesOK(t) /\ CheckOK(t) /\ ResultOK(t)

(* The pool of a thread is a ring of records of its own. *)
LEMMA PoolMod ==
  /\ LOCAL_POOL_SIZE \in Nat /\ LOCAL_POOL_SIZE > 2 /\ N_THREADS \in Nat
  /\ \A k \in Pool : (k + 1) % LOCAL_POOL_SIZE = IF k + 1 = LOCAL_POOL_SIZE THEN 0 ELSE k + 1
  /\ \A k \in Pool : (k + 2) % LOCAL_POOL_SIZE = IF k + 2 >= LOCAL_POOL_SIZE THEN k + 2 - LOCAL_POOL_SIZE ELSE k + 2
<1>1. LOCAL_POOL_SIZE \in Nat /\ LOCAL_POOL_SIZE > 2 /\ N_THREADS \in Nat
  BY SynchAssumption, SynchProgramsAssumption
<1>2. \A a, b \in Nat : a < b => a % b = a
  OBVIOUS
<1>3. \A a, b \in Nat : b <= a /\ a < b + b => a % b = a - b
  OBVIOUS
<1>4. ASSUME NEW k \in Pool
      PROVE  /\ (k + 1) % LOCAL_POOL_SIZE = IF k + 1 = LOCAL_POOL_SIZE THEN 0 ELSE k + 1
             /\ (k + 2) % LOCAL_POOL_SIZE = IF k + 2 >= LOCAL_POOL_SIZE THEN k + 2 - LOCAL_POOL_SIZE ELSE k + 2
  <2>1. k \in Nat /\ k < LOCAL_POOL_SIZE /\ k + 1 \in Nat /\ k + 2 \in Nat
    BY <1>1 DEF Pool
  <2>2. (k + 1) % LOCAL_POOL_SIZE = IF k + 1 = LOCAL_POOL_SIZE THEN 0 ELSE k + 1
    <3>1. CASE k + 1 = LOCAL_POOL_SIZE
      BY <1>1, <1>3, <2>1, <3>1
    <3>2. CASE k + 1 # LOCAL_POOL_SIZE
      BY <1>1, <1>2, <2>1, <3>2
    <3> QED
      BY <3>1, <3>2
  <2>3. (k + 2) % LOCAL_POOL_SIZE = IF k + 2 >= LOCAL_POOL_SIZE THEN k + 2 - LOCAL_POOL_SIZE ELSE k + 2
    <3>1. CASE k + 2 >= LOCAL_POOL_SIZE
      <4>1. LOCAL_POOL_SIZE <= k + 2 /\ k + 2 < LOCAL_POOL_SIZE + LOCAL_POOL_SIZE
        BY <1>1, <2>1, <3>1
      <4>2. (k + 2) % LOCAL_POOL_SIZE = k + 2 - LOCAL_POOL_SIZE
        BY <1>1, <1>3, <2>1, <4>1
      <4> QED
        BY <3>1, <4>2
    <3>2. CASE ~(k + 2 >= LOCAL_POOL_SIZE)
      BY <1>1, <1>2, <2>1, <3>2
    <3> QED
      BY <3>1, <3>2
  <2> QED
    BY <2>2, <2>3
<1> QED
  BY <1>1, <1>4

(* The records of a thread's pool are taken in a ring, and the next two differ
   from the one in use: local_index of sim.c. *)
LEMMA PoolRing ==
  \A k \in Pool : /\ (k + 1) % LOCAL_POOL_SIZE \in Pool /\ (k + 2) % LOCAL_POOL_SIZE \in Pool
                  /\ (k + 1) % LOCAL_POOL_SIZE # k /\ (k + 2) % LOCAL_POOL_SIZE # k
                  /\ (((k + 1) % LOCAL_POOL_SIZE) + 1) % LOCAL_POOL_SIZE = (k + 2) % LOCAL_POOL_SIZE
<1> SUFFICES ASSUME NEW k \in Pool
             PROVE  /\ (k + 1) % LOCAL_POOL_SIZE \in Pool /\ (k + 2) % LOCAL_POOL_SIZE \in Pool
                    /\ (k + 1) % LOCAL_POOL_SIZE # k /\ (k + 2) % LOCAL_POOL_SIZE # k
                    /\ (((k + 1) % LOCAL_POOL_SIZE) + 1) % LOCAL_POOL_SIZE = (k + 2) % LOCAL_POOL_SIZE
  OBVIOUS
<1>1. PICK m : m = (k + 1) % LOCAL_POOL_SIZE
  OBVIOUS
<1>2. /\ m = IF k + 1 = LOCAL_POOL_SIZE THEN 0 ELSE k + 1
      /\ (k + 2) % LOCAL_POOL_SIZE = IF k + 2 >= LOCAL_POOL_SIZE THEN k + 2 - LOCAL_POOL_SIZE ELSE k + 2
      /\ LOCAL_POOL_SIZE \in Nat /\ LOCAL_POOL_SIZE > 2
  BY <1>1, PoolMod
<1>3. m \in Pool
  BY <1>2 DEF Pool
<1>4. (m + 1) % LOCAL_POOL_SIZE = IF m + 1 = LOCAL_POOL_SIZE THEN 0 ELSE m + 1
  BY <1>3, PoolMod
<1> QED
  BY <1>1, <1>2, <1>3, <1>4 DEF Pool

(* The pools of two threads have no record in common, and none has the record
   the object starts with. *)
LEMMA PoolsApart ==
  \A o, w \in Thread, k, l \in Pool :
    /\ o * LOCAL_POOL_SIZE + k \in Record /\ o * LOCAL_POOL_SIZE + k # N_THREADS * LOCAL_POOL_SIZE
    /\ o * LOCAL_POOL_SIZE + k = w * LOCAL_POOL_SIZE + l => o = w /\ k = l
<1>1. LOCAL_POOL_SIZE \in Nat /\ N_THREADS \in Nat
  BY PoolMod
<1>2. ASSUME NEW a \in Nat, NEW b \in Nat, a < b, NEW k \in Pool
      PROVE  a * LOCAL_POOL_SIZE + k < b * LOCAL_POOL_SIZE /\ a * LOCAL_POOL_SIZE + k \in Nat /\ b * LOCAL_POOL_SIZE \in Nat
  <2>1. PICK d \in Nat : b = a + 1 + d
    <3>1. b - a - 1 \in Nat /\ b = a + 1 + (b - a - 1)
      BY <1>2
    <3> QED
      BY <3>1
  <2>2. /\ b * LOCAL_POOL_SIZE = a * LOCAL_POOL_SIZE + LOCAL_POOL_SIZE + d * LOCAL_POOL_SIZE
        /\ d * LOCAL_POOL_SIZE \in Nat /\ a * LOCAL_POOL_SIZE \in Nat
    BY <1>1, <2>1
  <2>3. k \in Nat /\ k < LOCAL_POOL_SIZE
    BY <1>1 DEF Pool
  <2> QED
    BY <1>1, <2>2, <2>3
<1> SUFFICES ASSUME NEW o \in Thread, NEW w \in Thread, NEW k \in Pool, NEW l \in Pool
             PROVE  /\ o * LOCAL_POOL_SIZE + k \in Record /\ o * LOCAL_POOL_SIZE + k # N_THREADS * LOCAL_POOL_SIZE
                    /\ o * LOCAL_POOL_SIZE + k = w * LOCAL_POOL_SIZE + l => o = w /\ k = l
  OBVIOUS
<1>3. o \in Nat /\ w \in Nat /\ o < N_THREADS /\ k \in Nat /\ l \in Nat
  BY <1>1 DEF Thread, Pool
<1>4. /\ o * LOCAL_POOL_SIZE + k < N_THREADS * LOCAL_POOL_SIZE
      /\ o * LOCAL_POOL_SIZE + k \in Nat /\ N_THREADS * LOCAL_POOL_SIZE \in Nat
  BY <1>1, <1>2, <1>3
<1>5. w * LOCAL_POOL_SIZE \in Nat /\ o * LOCAL_POOL_SIZE \in Nat
  BY <1>1, <1>3
<1>6. o < w => o * LOCAL_POOL_SIZE + k # w * LOCAL_POOL_SIZE + l
  BY <1>2, <1>3, <1>5
<1>7. w < o => o * LOCAL_POOL_SIZE + k # w * LOCAL_POOL_SIZE + l
  BY <1>2, <1>3, <1>5
<1>8. o * LOCAL_POOL_SIZE + k = o * LOCAL_POOL_SIZE + l => k = l
  BY <1>3, <1>5
<1> QED
  BY <1>3, <1>4, <1>6, <1>7, <1>8 DEF Record

(* The order of bitSearchFirst: every thread of the set, once. *)
LEMMA Ascending ==
  ASSUME NEW n \in Nat
  PROVE  \A A \in SUBSET (0 .. n - 1) : \E s \in Seq(A) :
           /\ \A i, j \in 1 .. Len(s) : i < j => s[i] < s[j]
           /\ \A x \in A : \E i \in 1 .. Len(s) : s[i] = x
<1> DEFINE Lines(A, s) == /\ \A i, j \in 1 .. Len(s) : i < j => s[i] < s[j]
                          /\ \A x \in A : \E i \in 1 .. Len(s) : s[i] = x
           All(m) == \A A \in SUBSET (0 .. m - 1) : \E s \in Seq(A) : Lines(A, s)
           Bad == {m \in Nat : ~All(m)}
<1> SUFFICES ASSUME ~All(n) PROVE FALSE
  OBVIOUS
<1>1. PICK m \in Bad : \A k \in Bad : m <= k
  <2>1. n \in Bad /\ Bad \subseteq Nat
    OBVIOUS
  <2> HIDE DEF Bad
  <2> QED
    BY <2>1, Least
<1>2. PICK A \in SUBSET (0 .. m - 1) : ~\E s \in Seq(A) : Lines(A, s)
  OBVIOUS
<1>3. CASE m = 0
  <2>1. A = {} /\ <<>> \in Seq(A) /\ Lines(A, <<>>)
    BY <1>3
  <2> QED
    BY <1>2, <2>1
<1>4. CASE m # 0
  <2>1. m - 1 \in Nat /\ All(m - 1)
    <3>1. m \in Nat /\ m - 1 \in Nat /\ ~(m <= m - 1)
      BY <1>4
    <3>2. m - 1 \notin Bad
      BY <1>1, <3>1
    <3> QED
      BY <3>1, <3>2
  <2> DEFINE B == A \ {m - 1}
  <2>2. B \in SUBSET (0 .. m - 1 - 1)
    BY <2>1
  <2>3. PICK s \in Seq(B) : Lines(B, s)
    BY <2>1, <2>2
  <2>4. CASE m - 1 \notin A
    <3>1. B = A
      BY <2>4
    <3> QED
      BY <1>2, <2>3, <3>1
  <2>5. CASE m - 1 \in A
    <3> DEFINE r == Append(s, m - 1)
    <3>1. r \in Seq(A) /\ Len(r) = Len(s) + 1 /\ Len(s) \in Nat
      BY <2>3, <2>5
    <3>2. \A i \in 1 .. Len(s) : r[i] = s[i] /\ s[i] \in B /\ s[i] \in 0 .. m - 1 - 1
      <4>1. \A i \in 1 .. Len(s) : s[i] \in B
        BY <2>3
      <4>2. \A i \in 1 .. Len(s) : r[i] = s[i]
        BY <2>3
      <4>3. B \subseteq 0 .. m - 1 - 1
        BY <2>2
      <4> HIDE DEF r, B
      <4> QED
        BY <4>1, <4>2, <4>3
    <3>3. r[Len(s) + 1] = m - 1
      BY <2>3
    <3> HIDE DEF r, B
    <3>4. \A i, j \in 1 .. Len(r) : i < j => r[i] < r[j]
      <4> SUFFICES ASSUME NEW i \in 1 .. Len(r), NEW j \in 1 .. Len(r), i < j PROVE r[i] < r[j]
        OBVIOUS
      <4>1. i \in 1 .. Len(s)
        BY <3>1
      <4>2. CASE j = Len(s) + 1
        BY <2>1, <3>2, <3>3, <4>1, <4>2
      <4>3. CASE j # Len(s) + 1
        <5>1. j \in 1 .. Len(s)
          BY <3>1, <4>3
        <5> QED
          BY <2>3, <3>2, <4>1, <5>1
      <4> QED
        BY <4>2, <4>3
    <3>5. \A x \in A : \E i \in 1 .. Len(r) : r[i] = x
      <4> SUFFICES ASSUME NEW x \in A PROVE \E i \in 1 .. Len(r) : r[i] = x
        OBVIOUS
      <4>1. CASE x = m - 1
        <5>1. Len(s) + 1 \in 1 .. Len(r)
          BY <3>1
        <5> QED
          BY <3>3, <4>1, <5>1
      <4>2. CASE x # m - 1
        <5>1. x \in B
          BY <4>2 DEF B
        <5>2. PICK i \in 1 .. Len(s) : s[i] = x
          BY <2>3, <5>1
        <5>3. i \in 1 .. Len(r)
          BY <3>1
        <5> QED
          BY <3>2, <5>2, <5>3
      <4> QED
        BY <4>1, <4>2
    <3> QED
      BY <1>2, <3>1, <3>4, <3>5
  <2> QED
    BY <2>4, <2>5
<1> QED
  BY <1>3, <1>4

(* bitSearchFirst, until no bit is left, gives each thread of a set once. *)
LEMMA FirstBitsIs ==
  ASSUME NEW A \in SUBSET Thread
  PROVE  /\ Sim!FirstBits(A) \in Seq(A)
         /\ \A i, j \in 1 .. Len(Sim!FirstBits(A)) : Sim!FirstBits(A)[i] = Sim!FirstBits(A)[j] => i = j
         /\ \A x \in A : \E i \in 1 .. Len(Sim!FirstBits(A)) : Sim!FirstBits(A)[i] = x
<1> DEFINE n == Cardinality(A)
           Up(s) == \A i, j \in DOMAIN s : i < j => s[i] < s[j]
           f == CHOOSE s \in [1 .. n -> A] : Up(s)
<1>1. IsFiniteSet(A) /\ n \in Nat
  <2>1. IsFiniteSet(Thread)
    BY SynchAssumption, FS_Interval DEF Thread
  <2> QED
    BY <2>1, FS_Subset, FS_CardinalityType
<1>2. PICK r \in Seq(A) : /\ \A i, j \in 1 .. Len(r) : i < j => r[i] < r[j]
                          /\ \A x \in A : \E i \in 1 .. Len(r) : r[i] = x
  BY Ascending, SynchAssumption DEF Thread
<1>3. A \subseteq Int
  BY SynchAssumption DEF Thread
<1>4. ASSUME NEW s, NEW m \in Nat, s \in [1 .. m -> A], \A i, j \in 1 .. m : i < j => s[i] < s[j]
      PROVE  \A i, j \in 1 .. m : s[i] = s[j] => i = j
  <2> SUFFICES ASSUME NEW i \in 1 .. m, NEW j \in 1 .. m, s[i] = s[j] PROVE i = j
    OBVIOUS
  <2>1. s[i] \in Int /\ s[j] \in Int
    BY <1>3, <1>4
  <2>2. ~(i < j) /\ ~(j < i)
    BY <1>4, <2>1
  <2> QED
    BY <2>2
<1>5. Len(r) = n /\ r \in [1 .. n -> A] /\ Up(r)
  <2>1. r \in [1 .. Len(r) -> A] /\ Len(r) \in Nat
    OBVIOUS
  <2>2. \A i, j \in 1 .. Len(r) : r[i] = r[j] => i = j
    BY <1>2, <1>4, <2>1
  <2>3. r \in Bijection(1 .. Len(r), A)
    BY <1>2, <2>1, <2>2 DEF Bijection, Injection, Surjection, IsInjective
  <2>4. IsFiniteSet(1 .. Len(r)) /\ Cardinality(1 .. Len(r)) = Len(r)
    <3>1. /\ IsFiniteSet(1 .. Len(r))
          /\ Cardinality(1 .. Len(r)) = IF 1 > Len(r) THEN 0 ELSE Len(r) - 1 + 1
      BY <2>1, FS_Interval
    <3> QED
      BY <2>1, <3>1
  <2>5. ExistsBijection(1 .. Len(r), A)
    BY <2>3 DEF ExistsBijection
  <2>6. Cardinality(A) = Cardinality(1 .. Len(r))
    BY <2>4, <2>5, FS_Bijection
  <2> QED
    BY <1>2, <2>1, <2>4, <2>6
<1>6. f \in [1 .. n -> A] /\ Up(f)
  BY <1>5
<1>7. f = Sim!FirstBits(A)
  <2>1. n = Sim!Cardinality(A)
    BY DEF Cardinality, Sim!Cardinality
  <2> HIDE DEF n
  <2> QED
    BY <2>1 DEF Sim!FirstBits
<1> HIDE DEF f, n
<1>8. \A i, j \in 1 .. n : f[i] = f[j] => i = j
  BY <1>1, <1>4, <1>6
<1>9. f \in Seq(A) /\ Len(f) = n
  BY <1>1, <1>6
<1>10. f \in Surjection(1 .. n, A)
  <2>1. IsFiniteSet(1 .. n) /\ Cardinality(1 .. n) = n
    BY <1>1, FS_Interval
  <2>2. f \in Injection(1 .. n, A)
    BY <1>6, <1>8 DEF Injection, IsInjective
  <2> QED
    BY <1>1, <2>1, <2>2, FS_Injection DEF n
<1> QED
  BY <1>7, <1>8, <1>9, <1>10 DEF Surjection

-----------------------------------------------------------------------------
(* The steps of sim and simstack that leave the object alone *)

(* The harness that PSim.tla is written over is the one of SynchPrograms. *)
LEMMA SimHarness ==
  /\ \A t, to : Sim!Call(t, to) <=> Call(t, to)
  /\ \A t, from, to : Sim!Go(t, from, to) <=> Go(t, from, to)
  /\ \A op, x, v : Sim!Perform(op, x, v) <=> Perform(op, x, v)
  /\ \A op, x, v : Sim!Outcome(op, x, v) = Outcome(op, x, v)
  /\ \A o, op, v : Sim!Object!Serial(o, op, v) = Object!Serial(o, op, v)
  /\ \A t, from, v : Sim!Return(t, from, v) <=> Return(t, from, v)
<1>1. \A o, op, v : Sim!Object!Serial(o, op, v) = Object!Serial(o, op, v)
  BY DEF Sim!Object!Serial, Object!Serial, Sim!Object!Ok, Object!Ok, Sim!Object!Empty, Object!Empty,
         Sim!Object!Count, Object!Count
<1>2. Sim!Object!Idle = Object!Idle
  BY DEF Sim!Object!Idle, Object!Idle, Sim!Object!Ok, Object!Ok
<1>3. \A left : Sim!OpOf(left) = OpOf(left)
  BY DEF Sim!OpOf, OpOf, Sim!Stacks, Stacks, Sim!Queues, Queues
<1>4. \A t, from, to : Sim!Go(t, from, to) <=> Go(t, from, to)
  BY DEF Sim!Go, Go
<1>5. \A t, to : Sim!Call(t, to) <=> Call(t, to)
  BY <1>2, <1>3, <1>4 DEF Sim!Call, Call
<1>6. \A op, x, v : Sim!Perform(op, x, v) <=> Perform(op, x, v)
  BY <1>1 DEF Sim!Perform, Perform
<1>7. \A op, x, v : Sim!Outcome(op, x, v) = Outcome(op, x, v)
  BY <1>1 DEF Sim!Outcome, Outcome
<1>8. \A t, from, v : Sim!Return(t, from, v) <=> Return(t, from, v)
  BY <1>2, <1>4 DEF Sim!Return, Return
<1> QED
  BY <1>1, <1>4, <1>5, <1>6, <1>7, <1>8


(* What the steps have in common. *)
LEMMA SimFrame ==
  ASSUME prog \in SimPrograms, CallsOK, SimCallInv
  PROVE  /\ SimTypes /\ OwnerOK /\ DOMAIN pc = Thread /\ DOMAIN call = Thread
         /\ \A t \in Thread : /\ BitsOK(t) /\ BuildOK(t) /\ TriesOK(t) /\ CheckOK(t) /\ ResultOK(t)
                              /\ CallOK(t) /\ DOMAIN call[t] = {"st", "op", "arg", "ret"}
         /\ \A t : Sim!Side(t) = "obj" /\ Sim!MyRecord(t) = Own(t) /\ Sim!Pointer(t) = Sp
                   /\ Sim!OldRecord(t) = Rec(loc[t].old.index)
         /\ \A t \in Thread : Own(t) \in Record /\ Own(t) # Sp.index
         /\ \A t, u \in Thread : Own(t) = Own(u) => t = u
         /\ \A t, u \in Thread : pc[t] = "check" /\ call[t].st = "asked" => Own(u) # loc[t].old.index
         /\ \A t \in Thread : pc[t] \notin {"idle", "toggle"} => call[t].st \in {"asked", "done"}
         /\ \A t \in Thread : call[t].st = "done" => pc[t] \notin {"idle", "toggle"}
<1>1. \A t : Sim!Side(t) = "obj" /\ Sim!MyRecord(t) = Own(t) /\ Sim!Pointer(t) = Sp
             /\ Sim!OldRecord(t) = Rec(loc[t].old.index)
  <2>1. \A t : Sim!Side(t) = "obj"
    BY DEF Sim!Side, SimPrograms
  <2> QED
    BY <2>1 DEF Sim!MyRecord, Sim!Pointer, Sim!OldRecord, Own, Sp, Rec
<1>2. \A t \in Thread : loc[t].index.obj \in Pool
  BY DEF SimCallInv, SimTypes
<1>3. \A t \in Thread : Own(t) \in Record
  BY <1>2, PoolsApart DEF Own
<1>4. ASSUME NEW t \in Thread, NEW u \in Thread, Own(t) = Own(u) PROVE t = u
  <2>1. PICK k \in Pool, l \in Pool : k = loc[t].index.obj /\ l = loc[u].index.obj
    BY <1>2
  <2>2. t * LOCAL_POOL_SIZE + k = u * LOCAL_POOL_SIZE + l
    BY <1>4, <2>1 DEF Own
  <2> QED
    BY <2>2, PoolsApart
<1>5. ASSUME NEW t \in Thread PROVE Own(t) # Sp.index
  <2>1. PICK k \in Pool : k = loc[t].index.obj
    BY <1>2
  <2>2. k # (k + 1) % LOCAL_POOL_SIZE
    BY PoolRing
  <2> QED
    BY <2>1, <2>2 DEF SimCallInv, OwnerOK, After1, Own
<1>6. ASSUME NEW t \in Thread, NEW u \in Thread, pc[t] = "check", call[t].st = "asked" PROVE Own(u) # loc[t].old.index
  <2>1. PICK k \in Pool : k = loc[u].index.obj
    BY <1>2
  <2>2. k # (k + 1) % LOCAL_POOL_SIZE /\ k # (k + 2) % LOCAL_POOL_SIZE
    BY PoolRing
  <2> QED
    BY <1>6, <2>1, <2>2 DEF SimCallInv, CheckOK, After1, After2, Own
<1>7. ASSUME NEW t \in Thread PROVE CallOK(t) /\ DOMAIN call[t] = {"st", "op", "arg", "ret"}
  BY DEF CallsOK, CallOK
<1>8. \A t \in Thread : pc[t] \notin {"idle", "toggle"} => call[t].st \in {"asked", "done"}
  BY <1>7 DEF CallOK
<1>9. \A t \in Thread : call[t].st = "done" => pc[t] \notin {"idle", "toggle"}
  BY <1>7 DEF CallOK, SimCallInv, BitsOK
<1> QED
  BY <1>1, <1>3, <1>4, <1>5, <1>6, <1>7, <1>8, <1>9 DEF SimCallInv, CallsOK

(* A step that only moves the thread on, with what it remembers of the object. *)
LEMMA SimQuiet ==
  ASSUME prog \in SimPrograms, prog' = prog, CallsOK, SimCallInv, NEW t \in Thread,
         NEW from \in SimLabel \ {"idle", "toggle"}, NEW to \in SimLabel \ {"idle", "toggle"}, Go(t, from, to),
         UNCHANGED <<mem, root, calls>>, SimTypes', \A u \in Thread \ {t} : loc'[u] = loc[u],
         loc'[t].bit = loc[t].bit, loc'[t].index = loc[t].index,
         to \in Trying => loc'[t].old = Sp \/ (from \in Trying /\ loc'[t].old = loc[t].old),
         to \in Building => \/ loc'[t].toggles = Toggles
                            \/ from \in Building /\ loc'[t].toggles = loc[t].toggles /\ loc'[t].old = loc[t].old,
         to \in {"own", "fetch"} => loc'[t].old = Sp,
         to \in {"own", "result", "fetch"} => call[t].st = "done",
         to \in Trying \ {"check"} /\ loc'[t].old = Sp => call[t].st = "asked",
         BuildOK(t)', TriesOK(t)', CheckOK(t)'
  PROVE  Effect(t) /\ SimCallInv'
<1>1. Effect(t)
  BY DEF Effect, Moves
<1>2. /\ DOMAIN pc = Thread /\ OwnerOK
      /\ \A u \in Thread : BitsOK(u) /\ BuildOK(u) /\ TriesOK(u) /\ CheckOK(u) /\ ResultOK(u)
      /\ \A u \in Thread : call[u].st = "done" => pc[u] \notin {"idle", "toggle"}
  BY SimFrame
<1>3. /\ pc[t] = from /\ pc'[t] = to /\ \A u \in Thread \ {t} : pc'[u] = pc[u]
      /\ mem' = mem /\ root' = root /\ call' = call /\ obj' = obj
      /\ Sp' = Sp /\ Toggles' = Toggles
  BY <1>2 DEF Go, calls, Sp, Toggles
<1>4. /\ \A u \in Thread : loc'[u].bit = loc[u].bit /\ loc'[u].index = loc[u].index /\ Own(u)' = Own(u)
      /\ \A u \in Thread, i \in Record : /\ Rec(i)' = Rec(i)
                                         /\ Agrees(u, Rec(i).applied)' <=> Agrees(u, Rec(i).applied)
      /\ \A u \in Thread : \A S : Agrees(u, S)' <=> Agrees(u, S)
      /\ \A u \in Thread : Agrees(u, Toggles)' <=> Agrees(u, Toggles)
      /\ \A u \in Thread \ {t} : Valid(u)' <=> Valid(u)
      /\ Valid(t)' <=> loc'[t].old = Sp
      /\ \A u \in Thread : Due(u)' <=> Due(u)
  <2>1. \A u \in Thread : loc'[u].bit = loc[u].bit /\ loc'[u].index = loc[u].index
    OBVIOUS
  <2> QED
    BY <1>3, <2>1 DEF Own, Rec, Agrees, Valid, Due, Toggles
<1>5. OwnerOK' /\ (Rec(Sp.index).state = obj)'
  BY <1>2, <1>3, <1>4 DEF OwnerOK, After1, SimCallInv, Rec
<1>6. ASSUME NEW u \in Thread PROVE BitsOK(u)'
  <2>1. BitsOK(u) /\ Sp.index \in Record
    BY <1>2, SimFrame DEF SimTypes
  <2>2. Agrees(u, Rec(Sp.index).applied)' <=> Agrees(u, Rec(Sp.index).applied)
    BY <1>3, <1>4 DEF Agrees, Rec
  <2>3. CASE u = t
    BY <1>3, <1>4, <2>1, <2>2, <2>3 DEF BitsOK
  <2>4. CASE u # t
    <3>1. loc'[u] = loc[u] /\ pc'[u] = pc[u]
      BY <1>3, <2>4
    <3> QED
      BY <1>3, <1>4, <2>1, <2>2, <2>4, <3>1 DEF BitsOK
  <2> QED
    BY <2>3, <2>4
<1>7. ASSUME NEW u \in Thread, u # t PROVE BuildOK(u)'
  <2>1. BuildOK(u) /\ loc'[u] = loc[u] /\ pc'[u] = pc[u]
    BY <1>2, <1>3, <1>7
  <2>2. \A a, b, c : Built(a, b, c)' <=> Built(a, b, c)
    BY <1>3 DEF Built
  <2>3. PICK a, b, c : a = Rec(Sp.index) /\ b = Rec(Own(u)) /\ c = loc[u].toggles
    OBVIOUS
  <2>4. Rec(Sp.index)' = a /\ Rec(Own(u))' = b /\ loc'[u].toggles = c
    BY <1>3, <1>4, <2>1, <2>3 DEF Rec
  <2>5. Built(Rec(Sp.index), Rec(Own(u)), loc[u].toggles)' <=> Built(Rec(Sp.index), Rec(Own(u)), loc[u].toggles)
    <3>1. Built(Rec(Sp.index), Rec(Own(u)), loc[u].toggles) <=> Built(a, b, c)
      BY <2>3
    <3>2. Built(Rec(Sp.index), Rec(Own(u)), loc[u].toggles)' <=> Built(a, b, c)'
      BY <1>3, <2>4 DEF Built
    <3> QED
      BY <2>2, <3>1, <3>2
  <2>6. Agrees(u, loc[u].toggles)' <=> Agrees(u, loc[u].toggles)
    BY <1>4, <2>1 DEF Agrees
  <2>7. (Rec(Own(u)) = Rec(Sp.index))' <=> Rec(Own(u)) = Rec(Sp.index)
    BY <2>3, <2>4
  <2>8. \A x \in Thread : ~(x \in Rec(Sp.index)'.applied <=> x \in loc'[u].toggles) <=> ~(x \in Rec(Sp.index).applied <=> x \in loc[u].toggles)
    BY <2>3, <2>4
  <2> QED
    BY <1>4, <1>7, <2>1, <2>5, <2>6, <2>7, <2>8 DEF BuildOK
<1>8. ASSUME NEW u \in Thread, u # t PROVE TriesOK(u)'
  <2>1. TriesOK(u) /\ loc'[u] = loc[u] /\ pc'[u] = pc[u] /\ (Valid(u)' <=> Valid(u)) /\ (Due(u)' <=> Due(u))
    BY <1>2, <1>3, <1>4, <1>8
  <2>2. Due(u) => Agrees(u, Toggles)
    BY <1>2 DEF Due, BitsOK
  <2>3. ASSUME Due(u), NEW w \in Thread, pc'[w] \in Building, Valid(w)',
               pc[w] \in Building /\ Valid(w) => Agrees(u, loc[w].toggles)
        PROVE  Agrees(u, loc[w].toggles)'
    <3>1. CASE w # t
      BY <1>3, <1>4, <2>3, <3>1 DEF Agrees
    <3>2. CASE w = t
      <4>1. CASE loc'[t].toggles = Toggles
        BY <1>4, <2>2, <2>3, <3>2, <4>1 DEF Agrees
      <4>2. CASE from \in Building /\ loc'[t].toggles = loc[t].toggles /\ loc'[t].old = loc[t].old
        BY <1>3, <1>4, <2>3, <3>2, <4>2 DEF Agrees, Valid
      <4> QED
        BY <1>3, <2>3, <3>2, <4>1, <4>2
    <3> QED
      BY <3>1, <3>2
  <2> QED
    BY <1>3, <2>1, <2>3 DEF TriesOK
<1>9. ASSUME NEW u \in Thread, u # t PROVE CheckOK(u)'
  <2>1. CheckOK(u) /\ loc'[u] = loc[u] /\ pc'[u] = pc[u] /\ (Valid(u)' <=> Valid(u))
    BY <1>2, <1>3, <1>4, <1>9
  <2> QED
    BY <1>3, <1>4, <2>1 DEF CheckOK, After1, After2, Agrees, Rec
<1>10. ASSUME NEW u \in Thread PROVE ResultOK(u)'
  <2> SUFFICES ASSUME call[u].st = "done" PROVE \E G \in SUBSET Record : ResultIn(u, G)'
    BY <1>3 DEF ResultOK
  <2>1. PICK G \in SUBSET Record : ResultIn(u, G)
    BY <1>2 DEF ResultOK
  <2>2. Agrees(u, Toggles)
    BY <1>2 DEF BitsOK
  <2>3. \A i \in G : Rec(i)'.ret[u] = call'[u].ret /\ Agrees(u, Rec(i).applied)'
    BY <1>3, <1>4, <2>1 DEF ResultIn
  <2>4. ASSUME NEW w \in Thread \ {u}, Own(w) \in G
        PROVE  /\ pc'[w] \in Trying => loc'[w].old.index \in G
               /\ pc'[w] \in Building => Agrees(u, loc[w].toggles)'
    <3>1. /\ pc[w] \in Trying => loc[w].old.index \in G
          /\ pc[w] \in Building => Agrees(u, loc[w].toggles)
      BY <2>1, <2>4 DEF ResultIn
    <3>2. CASE w # t
      BY <1>3, <1>4, <3>1, <3>2 DEF Agrees
    <3>3. CASE w = t
      <4>1. pc'[w] \in Trying => loc'[w].old.index \in G
        BY <1>3, <2>1, <3>1, <3>3 DEF ResultIn
      <4>2. pc'[w] \in Building => Agrees(u, loc[w].toggles)'
        BY <1>3, <1>4, <2>2, <3>1, <3>3 DEF Agrees
      <4> QED
        BY <4>1, <4>2
    <3> QED
      BY <3>2, <3>3
  <2>5. pc'[u] \in {"own", "fetch"} => loc'[u].old.index \in G
    BY <1>3, <2>1 DEF ResultIn
  <2> QED
    BY <1>3, <1>4, <2>1, <2>3, <2>4, <2>5 DEF ResultIn
<1> QED
  BY <1>1, <1>5, <1>6, <1>7, <1>8, <1>9, <1>10 DEF SimCallInv

-----------------------------------------------------------------------------
(* Reading, and looking at the current record *)

(* A thread reads which record is current; at the end, to take its result from there. *)
LEMMA SimReads ==
  ASSUME prog \in SimPrograms, prog' = prog, CallsOK, SimCallInv, NEW t \in Thread, Sim!SimRead(t) \/ Sim!SimResult(t)
  PROVE  Effect(t) /\ SimCallInv'
<1>1. /\ SimTypes /\ OwnerOK /\ DOMAIN pc = Thread /\ BitsOK(t) /\ TriesOK(t)
      /\ pc[t] \notin {"idle", "toggle"} => call[t].st \in {"asked", "done"}
  BY SimFrame
<1>2. PICK from \in {"read", "result"}, to \in {"check", "fetch"} :
        /\ Go(t, from, to) /\ (from = "read" <=> to = "check")
        /\ loc' = [loc EXCEPT ![t].old = Sp] /\ UNCHANGED <<mem, root, calls>>
  <2>1. CASE Sim!SimRead(t)
    BY <2>1, SimHarness, SimFrame DEF Sim!SimRead, Sim!calls, calls
  <2>2. CASE Sim!SimResult(t)
    BY <2>2, SimHarness, SimFrame DEF Sim!SimResult, Sim!calls, calls
  <2> QED
    BY <2>1, <2>2
<1>3. /\ loc'[t].old = Sp /\ loc'[t].bit = loc[t].bit /\ loc'[t].index = loc[t].index /\ loc'[t].j = loc[t].j
      /\ loc'[t].toggles = loc[t].toggles /\ DOMAIN loc'[t] = DOMAIN loc[t]
      /\ DOMAIN loc' = Thread /\ \A u \in Thread \ {t} : loc'[u] = loc[u]
  BY <1>1, <1>2 DEF SimTypes
<1>4. /\ pc[t] = from /\ pc'[t] = to /\ (\A u \in Thread \ {t} : pc'[u] = pc[u]) /\ DOMAIN pc' = Thread
      /\ mem' = mem /\ root' = root /\ call' = call /\ Sp' = Sp
  BY <1>1, <1>2 DEF Go, calls, Sp
<1>5. SimTypes'
  <2>1. pc' \in [Thread -> SimLabel]
    BY <1>1, <1>2, <1>4 DEF SimTypes, SimLabel, Go
  <2>2. loc'[t].old.seq \in Int /\ loc'[t].old.seq <= Sp.seq /\ loc'[t].old.index \in Record
    BY <1>1, <1>3 DEF SimTypes
  <2>3. loc'[t].j \in {0, 1, 2} /\ (pc'[t] \in Trying \cup {"idle", "toggle", "read"} => loc'[t].j # 2)
    BY <1>1, <1>2, <1>3, <1>4 DEF SimTypes, Trying
  <2> QED
    BY <1>1, <1>3, <1>4, <2>1, <2>2, <2>3 DEF SimTypes, Rec, Toggles
<1>6. from \in SimLabel \ {"idle", "toggle"} /\ to \in SimLabel \ {"idle", "toggle"} /\ to \notin Building
      /\ to \in Trying \cup {"own", "result", "fetch"} /\ to \notin Trying \ {"check"} /\ to # "own" /\ to # "result"
      /\ (to \in Trying <=> to = "check") /\ to \notin {"snapshot", "recheck", "apply", "swap"}
  BY DEF SimLabel, Building, Trying
<1>7. to \in {"own", "result", "fetch"} => call[t].st = "done"
  BY <1>1, <1>2, <1>4 DEF BitsOK
<1>8. BuildOK(t)'
  BY <1>4, <1>6 DEF BuildOK
<1>9. TriesOK(t)'
  <2>1. Valid(t)' /\ (Due(t)' <=> Due(t))
    BY <1>2, <1>3, <1>4 DEF Valid, Due
  <2>2. ASSUME Due(t), pc'[t] \in Trying, loc[t].j = 1, NEW w \in Thread, pc'[w] \in Building, Valid(w)'
        PROVE  Agrees(t, loc[w].toggles)'
    <3>1. w # t /\ loc'[w] = loc[w] /\ pc'[w] = pc[w]
      BY <1>3, <1>4, <1>6, <2>2
    <3>2. pc[t] = "read"
      BY <1>2, <1>4, <1>6, <2>2
    <3>3. Agrees(t, loc[w].toggles)
      BY <1>1, <1>4, <2>2, <3>1, <3>2 DEF TriesOK, Valid
    <3> QED
      BY <1>3, <3>1, <3>3 DEF Agrees
  <2>3. "read" \notin Trying
    BY DEF Trying
  <2> QED
    BY <1>3, <1>4, <1>6, <2>1, <2>2 DEF TriesOK
<1>10. CheckOK(t)'
  <2> SUFFICES ASSUME to = "check", call[t].st = "asked" PROVE CheckOK(t)'
    BY <1>4 DEF CheckOK
  <2>1. ~Agrees(t, Rec(Sp.index).applied)
    BY <1>1, <1>2, <1>4 DEF BitsOK
  <2>2. ~Agrees(t, Rec(loc[t].old.index).applied)'
    BY <1>3, <1>4, <2>1 DEF Agrees, Rec
  <2>3. \A o \in Thread : loc'[o].index = loc[o].index
    BY <1>3
  <2> QED
    BY <1>1, <1>3, <1>4, <2>2, <2>3 DEF CheckOK, OwnerOK, After1
<1> QED
  BY <1>2, <1>3, <1>4, <1>5, <1>6, <1>7, <1>8, <1>9, <1>10, SimQuiet

(* A step that changes no local variable: the thread looks at its bit in the
   record, or sees that the record is still current. *)
LEMMA SimLooks ==
  ASSUME prog \in SimPrograms, prog' = prog, CallsOK, SimCallInv, NEW t \in Thread,
         Sim!SimCheck(t, "result") \/ (Valid(t) /\ Go(t, "recheck", "apply") /\ UNCHANGED <<loc, mem, root, calls>>)
  PROVE  Effect(t) /\ SimCallInv'
<1>1. /\ SimTypes /\ OwnerOK /\ DOMAIN pc = Thread /\ BitsOK(t) /\ TriesOK(t) /\ BuildOK(t) /\ CheckOK(t)
      /\ pc[t] \notin {"idle", "toggle"} => call[t].st \in {"asked", "done"}
  BY SimFrame
<1>2. PICK from \in {"check", "recheck"}, to \in {"result", "copy", "apply"} :
        /\ Go(t, from, to) /\ UNCHANGED <<loc, mem, root, calls>>
        /\ from = "check" => to # "apply" /\ (to = "result" <=> Agrees(t, Rec(loc[t].old.index).applied))
        /\ from = "recheck" => to = "apply" /\ Valid(t)
  <2>1. CASE Sim!SimCheck(t, "result")
    <3>1. /\ Go(t, "check", IF (t \in Rec(loc[t].old.index).applied) = loc[t].bit.obj THEN "result" ELSE "copy")
          /\ UNCHANGED <<loc, mem, root, calls>>
      BY <2>1, SimHarness, SimFrame DEF Sim!SimCheck, Sim!calls, calls
    <3>2. loc[t].bit.obj \in BOOLEAN
      BY <1>1 DEF SimTypes
    <3>3. CASE Agrees(t, Rec(loc[t].old.index).applied)
      <4>1. Go(t, "check", "result")
        BY <3>1, <3>2, <3>3 DEF Agrees
      <4> QED
        BY <3>1, <3>3, <4>1
    <3>4. CASE ~Agrees(t, Rec(loc[t].old.index).applied)
      <4>1. Go(t, "check", "copy")
        BY <3>1, <3>2, <3>4 DEF Agrees
      <4> QED
        BY <3>1, <3>4, <4>1
    <3> QED
      BY <3>3, <3>4
  <2>2. CASE Valid(t) /\ Go(t, "recheck", "apply") /\ UNCHANGED <<loc, mem, root, calls>>
    BY <2>2
  <2> QED
    BY <2>1, <2>2
<1>3. /\ pc[t] = from /\ pc'[t] = to /\ (\A u \in Thread \ {t} : pc'[u] = pc[u]) /\ DOMAIN pc' = Thread
      /\ loc' = loc /\ mem' = mem /\ root' = root /\ call' = call /\ obj' = obj /\ Sp' = Sp
  BY <1>1, <1>2 DEF Go, calls, Sp
<1>4. /\ from \in SimLabel \ {"idle", "toggle"} /\ to \in SimLabel \ {"idle", "toggle"} /\ from \in Trying
      /\ to \in Building => to = "apply" /\ from \in Building
  BY <1>2 DEF SimLabel, Building, Trying
<1>5. SimTypes'
  <2>1. pc' \in [Thread -> SimLabel]
    BY <1>1, <1>2, <1>4 DEF SimTypes, Go
  <2>2. pc'[t] \in Trying \cup {"own", "fetch"} => loc[t].old.index \in Record
    BY <1>1, <1>3, <1>4 DEF SimTypes
  <2>3. pc'[t] \in Trying \cup {"idle", "toggle", "read"} => loc[t].j # 2
    BY <1>1, <1>3, <1>4 DEF SimTypes
  <2> QED
    BY <1>1, <1>3, <2>1, <2>2, <2>3 DEF SimTypes, Rec, Toggles
<1>6. /\ to \in {"own", "result", "fetch"} => call[t].st = "done"
      /\ to \in Trying \ {"check"} /\ loc'[t].old = Sp => call[t].st = "asked"
  <2>1. CASE from = "check" /\ to = "result"
    BY <1>1, <1>2, <1>3, <2>1 DEF CheckOK, Trying
  <2>2. CASE from = "check" /\ to = "copy"
    <3>1. loc[t].old = Sp => ~Agrees(t, Rec(Sp.index).applied)
      BY <1>2, <2>2 DEF Agrees, Rec
    <3> QED
      BY <1>1, <1>3, <2>2, <3>1 DEF BitsOK
  <2>3. CASE from = "recheck"
    BY <1>1, <1>2, <1>3, <2>3 DEF BitsOK, Trying, Valid
  <2> QED
    BY <1>2, <2>1, <2>2, <2>3
<1>7. BuildOK(t)'
  <2> SUFFICES ASSUME to = "apply" PROVE BuildOK(t)'
    BY <1>2, <1>3 DEF BuildOK, Building
  <2>1. /\ from = "recheck" /\ pc[t] \in Building /\ from \in {"snapshot", "recheck", "apply"} /\ Valid(t)
    BY <1>2, <1>3 DEF Building
  <2>2. /\ Agrees(t, loc[t].toggles) /\ Rec(Own(t)) = Rec(Sp.index)
        /\ \A x \in Thread : ~(x \in Rec(Sp.index).applied <=> x \in loc[t].toggles) => Due(x)
    BY <1>1, <1>3, <2>1 DEF BuildOK
  <2>3. \A x \in Thread : Due(x) => Due(x)'
    BY <1>3, <1>4 DEF Due
  <2> QED
    BY <1>3, <2>2, <2>3 DEF BuildOK, Agrees, Rec, Own
<1>8. TriesOK(t)'
  <2>1. (Valid(t)' <=> Valid(t)) /\ (Due(t)' <=> Due(t))
    BY <1>3, <1>4 DEF Valid, Due
  <2>2. ASSUME NEW w \in Thread, pc'[w] \in Building, Valid(w)' PROVE pc[w] \in Building /\ Valid(w)
    BY <1>3, <1>4, <2>2 DEF Valid
  <2>3. \A w \in Thread : Agrees(t, loc[w].toggles)' <=> Agrees(t, loc[w].toggles)
    BY <1>3 DEF Agrees
  <2> QED
    BY <1>1, <1>3, <1>4, <2>1, <2>2, <2>3 DEF TriesOK
<1>9. CheckOK(t)'
  BY <1>2, <1>3 DEF CheckOK
<1> QED
  BY <1>2, <1>3, <1>4, <1>5, <1>6, <1>7, <1>8, <1>9, SimQuiet

(* A thread takes the bits of all threads. *)
LEMMA SimSnapshots ==
  ASSUME prog \in SimPrograms, prog' = prog, CallsOK, SimCallInv, NEW t \in Thread, Sim!SimSnapshot(t)
  PROVE  Effect(t) /\ SimCallInv'
<1>1. /\ SimTypes /\ OwnerOK /\ DOMAIN pc = Thread /\ TriesOK(t) /\ BuildOK(t)
      /\ \A u \in Thread : BitsOK(u)
      /\ \A u \in Thread : pc[u] \notin {"idle", "toggle"} => call[u].st \in {"asked", "done"}
  BY SimFrame
<1>2. Go(t, "snapshot", "recheck") /\ loc' = [loc EXCEPT ![t].toggles = Toggles] /\ UNCHANGED <<mem, root, calls>>
  BY SimHarness, SimFrame DEF Sim!SimSnapshot, Sim!calls, calls, Toggles
<1>3. /\ loc'[t].old = loc[t].old /\ loc'[t].bit = loc[t].bit /\ loc'[t].index = loc[t].index /\ loc'[t].j = loc[t].j
      /\ loc'[t].toggles = Toggles /\ DOMAIN loc'[t] = DOMAIN loc[t]
      /\ DOMAIN loc' = Thread /\ \A u \in Thread \ {t} : loc'[u] = loc[u]
  BY <1>1, <1>2 DEF SimTypes
<1>4. /\ pc[t] = "snapshot" /\ pc'[t] = "recheck" /\ (\A u \in Thread \ {t} : pc'[u] = pc[u]) /\ DOMAIN pc' = Thread
      /\ mem' = mem /\ root' = root /\ call' = call /\ Sp' = Sp /\ Toggles' = Toggles
  BY <1>1, <1>2 DEF Go, calls, Sp, Toggles
<1>5. SimTypes'
  <2>1. pc' \in [Thread -> SimLabel]
    BY <1>1, <1>2 DEF SimTypes, SimLabel, Go
  <2>2. "snapshot" \in Trying /\ loc[t].old.index \in Record /\ loc[t].j # 2 /\ Toggles \subseteq Thread
    BY <1>1, <1>4 DEF SimTypes, Trying
  <2> QED
    BY <1>1, <1>3, <1>4, <2>1, <2>2 DEF SimTypes, Rec, Toggles
<1>6. /\ "snapshot" \in SimLabel \ {"idle", "toggle"} /\ "recheck" \in SimLabel \ {"idle", "toggle"}
      /\ "snapshot" \in Trying \ {"check"} /\ "recheck" \notin {"own", "result", "fetch"} /\ "recheck" \in Building
  BY DEF SimLabel, Building, Trying
<1>7. loc'[t].old = Sp => call[t].st = "asked"
  BY <1>1, <1>3, <1>4, <1>6 DEF BitsOK, Valid
<1>8. Agrees(t, Toggles)
  BY <1>1, <1>4 DEF BitsOK
<1>9. BuildOK(t)'
  <2>1. Agrees(t, loc[t].toggles)'
    BY <1>3, <1>8 DEF Agrees
  <2>2. Valid(t)' <=> Valid(t)
    BY <1>3, <1>4 DEF Valid
  <2>3. Valid(t) => Rec(Own(t)) = Rec(Sp.index)
    BY <1>1, <1>4 DEF BuildOK
  <2>4. Rec(Own(t))' = Rec(Own(t)) /\ Rec(Sp.index)' = Rec(Sp.index)
    BY <1>3, <1>4 DEF Rec, Own
  <2>5. ASSUME NEW x \in Thread, ~(x \in Rec(Sp.index).applied <=> x \in Toggles) PROVE Due(x)'
    <3>1. pc[x] \notin {"idle", "toggle"} /\ call[x].st = "asked"
      BY <1>1, <2>5 DEF BitsOK, Agrees
    <3> QED
      BY <1>4, <3>1 DEF Due
  <2> QED
    BY <1>3, <1>4, <2>1, <2>2, <2>3, <2>4, <2>5 DEF BuildOK
<1>10. TriesOK(t)'
  <2>1. (Valid(t)' <=> Valid(t)) /\ (Due(t)' <=> Due(t)) /\ pc[t] \in Trying
    BY <1>3, <1>4, <1>6 DEF Valid, Due
  <2>2. ASSUME NEW w \in Thread, pc'[w] \in Building, Valid(w)', pc[w] \in Building /\ Valid(w) => Agrees(t, loc[w].toggles)
        PROVE  Agrees(t, loc[w].toggles)'
    <3>1. CASE w = t
      BY <1>3, <1>8, <3>1 DEF Agrees
    <3>2. CASE w # t
      BY <1>3, <1>4, <2>2, <3>2 DEF Agrees, Valid
    <3> QED
      BY <3>1, <3>2
  <2> QED
    BY <1>1, <1>3, <1>4, <2>1, <2>2 DEF TriesOK
<1>11. CheckOK(t)'
  BY <1>4 DEF CheckOK
<1> QED
  BY <1>2, <1>3, <1>4, <1>5, <1>6, <1>7, <1>9, <1>10, <1>11, SimQuiet

(* One more try is over: somebody else was faster. After the second one the
   request was served. *)
LEMMA SimFails ==
  ASSUME prog \in SimPrograms, prog' = prog, CallsOK, SimCallInv, NEW t \in Thread, ~Valid(t),
         NEW from \in {"recheck", "swap"}, Sim!NextTry(t, from, "result"), UNCHANGED <<mem, root, calls>>
  PROVE  Effect(t) /\ SimCallInv'
<1>1. /\ SimTypes /\ OwnerOK /\ DOMAIN pc = Thread /\ BitsOK(t) /\ TriesOK(t) /\ BuildOK(t) /\ CheckOK(t)
      /\ pc[t] \notin {"idle", "toggle"} => call[t].st \in {"asked", "done"}
  BY SimFrame
<1>2. PICK to \in {"result", "read"} :
        /\ Go(t, from, to) /\ (to = "result" <=> loc[t].j = 1) /\ loc' = [loc EXCEPT ![t].j = loc[t].j + 1]
  BY SimHarness DEF Sim!NextTry
<1>3. /\ loc'[t].old = loc[t].old /\ loc'[t].bit = loc[t].bit /\ loc'[t].index = loc[t].index /\ loc'[t].j = loc[t].j + 1
      /\ loc'[t].toggles = loc[t].toggles /\ DOMAIN loc'[t] = DOMAIN loc[t]
      /\ DOMAIN loc' = Thread /\ \A u \in Thread \ {t} : loc'[u] = loc[u]
  BY <1>1, <1>2 DEF SimTypes
<1>4. /\ pc[t] = from /\ pc'[t] = to /\ (\A u \in Thread \ {t} : pc'[u] = pc[u]) /\ DOMAIN pc' = Thread
      /\ mem' = mem /\ root' = root /\ call' = call /\ Sp' = Sp
  BY <1>1, <1>2 DEF Go, calls, Sp
<1>5. /\ from \in SimLabel \ {"idle", "toggle"} /\ to \in SimLabel \ {"idle", "toggle"} /\ from \in Trying
      /\ to \notin Building /\ to \notin Trying /\ to \notin {"own", "fetch", "idle", "toggle", "snapshot", "apply", "check"}
  BY <1>2 DEF SimLabel, Building, Trying
<1>6. loc[t].j \in {0, 1} /\ (to = "read" => loc'[t].j = 1)
  <2>1. loc[t].j \in {0, 1}
    BY <1>1, <1>4, <1>5 DEF SimTypes
  <2> QED
    BY <1>2, <1>3, <2>1
<1>7. SimTypes'
  <2>1. pc' \in [Thread -> SimLabel]
    BY <1>1, <1>2, <1>5 DEF SimTypes, Go
  <2>2. loc'[t].j \in {0, 1, 2} /\ (to = "read" => loc'[t].j # 2)
    BY <1>3, <1>6
  <2> QED
    BY <1>1, <1>3, <1>4, <1>5, <2>1, <2>2 DEF SimTypes, Rec, Toggles
<1>8. to = "result" => call[t].st = "done"
  BY <1>1, <1>2, <1>4, <1>5 DEF TriesOK
<1>9. BuildOK(t)' /\ CheckOK(t)'
  BY <1>4, <1>5 DEF BuildOK, CheckOK, Building
<1>10. TriesOK(t)'
  <2>1. (Valid(t)' <=> Valid(t)) /\ (Due(t)' <=> Due(t))
    BY <1>3, <1>4, <1>5 DEF Valid, Due
  <2>2. ASSUME Due(t), NEW w \in Thread, pc'[w] \in Building, Valid(w)' PROVE Agrees(t, loc[w].toggles)'
    <3>1. w # t /\ loc'[w] = loc[w] /\ pc'[w] = pc[w] /\ Valid(w)
      BY <1>3, <1>4, <1>5, <2>2 DEF Valid
    <3> QED
      BY <1>1, <1>3, <1>4, <1>5, <2>2, <3>1 DEF TriesOK, Agrees
  <2> QED
    BY <1>4, <1>5, <2>1, <2>2 DEF TriesOK
<1> QED
  BY <1>2, <1>3, <1>4, <1>5, <1>7, <1>8, <1>9, <1>10, SimQuiet

-----------------------------------------------------------------------------
(* Copying it *)

(* A thread writes its own record, which nobody reads who does not notice
   that it is stale. *)
LEMMA SimWrites ==
  ASSUME prog \in SimPrograms, prog' = prog, CallsOK, SimCallInv, NEW t \in Thread,
         NEW from, NEW to, <<from, to>> \in {<<"copy", "snapshot">>, <<"apply", "swap">>}, Go(t, from, to),
         UNCHANGED <<loc, root, calls>>,
         NEW r, mem' = [mem EXCEPT !.obj[Own(t)] = r],
         DOMAIN r = {"applied", "state", "ret"}, r.applied \subseteq Thread, DOMAIN r.ret = Thread,
         \A u \in Thread, G \in SUBSET Record : ResultIn(u, G) /\ Own(t) \in G => r.ret[u] = call[u].ret /\ Agrees(u, r.applied),
         from = "copy" /\ Valid(t) => r = Rec(Sp.index),
         from = "apply" /\ Valid(t) => Built(Rec(Sp.index), r, loc[t].toggles)
  PROVE  Effect(t) /\ SimCallInv'
<1>1. /\ SimTypes /\ OwnerOK /\ DOMAIN pc = Thread
      /\ \A u \in Thread : BitsOK(u) /\ BuildOK(u) /\ TriesOK(u) /\ CheckOK(u) /\ ResultOK(u)
      /\ \A u \in Thread : Own(u) \in Record /\ Own(u) # Sp.index
      /\ \A u, w \in Thread : Own(u) = Own(w) => u = w
      /\ \A u, w \in Thread : pc[u] = "check" /\ call[u].st = "asked" => Own(w) # loc[u].old.index
  BY SimFrame
<1>2. /\ pc[t] = from /\ pc'[t] = to /\ (\A u \in Thread \ {t} : pc'[u] = pc[u]) /\ DOMAIN pc' = Thread
      /\ loc' = loc /\ root' = root /\ call' = call /\ obj' = obj /\ Sp' = Sp /\ Toggles' = Toggles
  BY <1>1 DEF Go, calls, Sp, Toggles
<1>3. /\ from \in Trying /\ to \in Trying /\ from \notin {"idle", "toggle", "read", "check", "own", "result", "fetch"}
      /\ to \notin {"idle", "toggle", "read", "check", "own", "result", "fetch"} /\ (to \in Building <=> from \in Building)
      /\ (to \in Building <=> from = "apply") /\ (to = "snapshot" <=> from = "copy") /\ to \notin {"recheck", "apply"}
      /\ from # "check" /\ to # "check" /\ to \in SimLabel
  BY DEF Trying, Building, SimLabel
<1>4. /\ Rec(Own(t))' = r /\ \A i \in Record : i # Own(t) => Rec(i)' = Rec(i)
      /\ DOMAIN mem' = {"obj"} /\ DOMAIN mem'.obj = Record
  <2>1. PICK k \in Record : k = Own(t)
    BY <1>1
  <2>2. mem' = [mem EXCEPT !.obj[k] = r]
    BY <2>1
  <2>3. /\ mem'.obj[k] = r /\ \A i \in Record : i # k => mem'.obj[i] = mem.obj[i]
        /\ DOMAIN mem' = {"obj"} /\ DOMAIN mem'.obj = Record
    BY <1>1, <2>2 DEF SimTypes
  <2>4. Own(t)' = k
    BY <1>2, <2>1 DEF Own
  <2> QED
    BY <2>1, <2>3, <2>4 DEF Rec
<1>5. Sp.index \in Record /\ Rec(Sp.index)' = Rec(Sp.index) /\ \A u \in Thread \ {t} : Rec(Own(u))' = Rec(Own(u))
  <2>1. \A u \in Thread : Own(u)' = Own(u)
    BY <1>2 DEF Own
  <2>2. Sp.index \in Record /\ Sp.index # Own(t) /\ Sp'.index = Sp.index
    BY <1>1, <1>2 DEF SimTypes
  <2>3. Rec(Sp.index)' = Rec(Sp.index)
    BY <1>4, <2>2 DEF Rec
  <2>4. ASSUME NEW u \in Thread \ {t} PROVE Rec(Own(u))' = Rec(Own(u))
    <3>1. Own(u) \in Record /\ Own(u) # Own(t) /\ Own(u)' = Own(u)
      BY <1>1, <2>1
    <3> QED
      BY <1>4, <3>1 DEF Rec
  <2> QED
    BY <2>2, <2>3, <2>4
<1>6. /\ \A u \in Thread : \A S : Agrees(u, S)' <=> Agrees(u, S)
      /\ \A u \in Thread : Agrees(u, Toggles)' <=> Agrees(u, Toggles)
      /\ \A u \in Thread : Agrees(u, Rec(Sp.index).applied)' <=> Agrees(u, Rec(Sp.index).applied)
      /\ \A u \in Thread : Agrees(u, loc[u].toggles)' <=> Agrees(u, loc[u].toggles)
      /\ \A u, w \in Thread : Agrees(u, loc[w].toggles)' <=> Agrees(u, loc[w].toggles)
      /\ \A u \in Thread : (Valid(u)' <=> Valid(u)) /\ (Due(u)' <=> Due(u))
  BY <1>2, <1>3, <1>5 DEF Agrees, Valid, Due
<1>7. Effect(t)
  BY <1>3 DEF Effect, Moves
<1>8. SimTypes'
  <2>1. pc' \in [Thread -> SimLabel]
    BY <1>1, <1>3 DEF SimTypes, Go
  <2>2. \A i \in Record : DOMAIN Rec(i)' = {"applied", "state", "ret"} /\ Rec(i)'.applied \subseteq Thread
                          /\ DOMAIN Rec(i)'.ret = Thread
    <3>1. \A i \in Record : DOMAIN mem.obj[i] = {"applied", "state", "ret"} /\ mem.obj[i].applied \subseteq Thread
                          /\ DOMAIN mem.obj[i].ret = Thread
      BY <1>1 DEF SimTypes, Rec
    <3>2. PICK k \in Record : k = Own(t) /\ Own(t)' = k
      BY <1>1, <1>2 DEF Own
    <3>3. mem'.obj[k] = r /\ \A i \in Record : i # k => mem'.obj[i] = mem.obj[i]
      BY <1>4, <3>2 DEF Rec
    <3> QED
      BY <3>1, <3>3 DEF Rec
  <2>3. \A u \in Thread :
       /\ DOMAIN loc[u] = {"bit", "index", "j", "old", "toggles"} /\ DOMAIN loc[u].bit = {"obj"} /\ DOMAIN loc[u].index = {"obj"}
       /\ loc[u].bit.obj \in BOOLEAN /\ loc[u].index.obj \in Pool /\ loc[u].toggles \subseteq Thread
       /\ loc[u].old.seq \in Int /\ loc[u].old.seq <= Sp.seq
       /\ pc'[u] \in Trying \cup {"own", "fetch"} => loc[u].old.index \in Record
       /\ loc[u].j \in {0, 1, 2} /\ (pc'[u] \in Trying \cup {"idle", "toggle", "read"} => loc[u].j # 2)
    BY <1>1, <1>2, <1>3 DEF SimTypes
  <2> QED
    BY <1>1, <1>2, <1>4, <2>1, <2>2, <2>3 DEF SimTypes, Toggles
<1>9. OwnerOK' /\ (Rec(Sp.index).state = obj)'
  BY <1>1, <1>2, <1>5 DEF OwnerOK, After1, SimCallInv
<1>10. ASSUME NEW u \in Thread PROVE BitsOK(u)'
  <2>1. CASE u = t
    BY <1>1, <1>2, <1>3, <1>6, <2>1 DEF BitsOK
  <2>2. CASE u # t
    BY <1>1, <1>2, <1>6, <2>2 DEF BitsOK
  <2> QED
    BY <2>1, <2>2
<1>11. ASSUME NEW u \in Thread PROVE BuildOK(u)'
  <2>1. \A a, b, c : Built(a, b, c)' <=> Built(a, b, c)
    BY <1>2 DEF Built
  <2>2. \A x \in Thread : ~(x \in Rec(Sp.index)'.applied <=> x \in loc'[u].toggles) <=> ~(x \in Rec(Sp.index).applied <=> x \in loc[u].toggles)
    BY <1>2, <1>5
  <2>3. CASE u = t
    <3>1. (Rec(Own(t)) = Rec(Sp.index))' <=> r = Rec(Sp.index)
      BY <1>4, <1>5
    <3>2. PICK a, c : a = Rec(Sp.index) /\ c = loc[t].toggles
      OBVIOUS
    <3>3. Rec(Sp.index)' = a /\ Rec(Own(t))' = r /\ loc'[t].toggles = c
      BY <1>2, <1>4, <1>5, <3>2
    <3>4. Built(Rec(Sp.index), Rec(Own(t)), loc[t].toggles)' <=> Built(a, r, c)'
      BY <1>2, <3>3 DEF Built
    <3> QED
      BY <1>1, <1>2, <1>3, <1>6, <2>1, <2>2, <2>3, <3>1, <3>2, <3>4 DEF BuildOK
  <2>4. CASE u # t
    <3>1. PICK a, b, c : a = Rec(Sp.index) /\ b = Rec(Own(u)) /\ c = loc[u].toggles
      OBVIOUS
    <3>2. Rec(Sp.index)' = a /\ Rec(Own(u))' = b /\ loc'[u].toggles = c
      BY <1>2, <1>5, <2>4, <3>1
    <3>3. Built(Rec(Sp.index), Rec(Own(u)), loc[u].toggles)' <=> Built(a, b, c)'
      BY <1>2, <3>2 DEF Built
    <3>4. (Rec(Own(u)) = Rec(Sp.index))' <=> Rec(Own(u)) = Rec(Sp.index)
      BY <3>1, <3>2
    <3> QED
      BY <1>1, <1>2, <1>6, <2>1, <2>2, <2>4, <3>1, <3>3, <3>4 DEF BuildOK
  <2> QED
    BY <2>3, <2>4
<1>12. ASSUME NEW u \in Thread PROVE TriesOK(u)'
  <2>1. \A w \in Thread : (pc'[w] \in Building <=> pc[w] \in Building)
    BY <1>2, <1>3
  <2>2. (pc'[u] \in Trying <=> pc[u] \in Trying) /\ (pc'[u] \in Trying \cup {"read"} <=> pc[u] \in Trying \cup {"read"})
    BY <1>2, <1>3
  <2>3. TriesOK(u)
    BY <1>1
  <2> QED
    BY <1>2, <1>6, <2>1, <2>2, <2>3 DEF TriesOK
<1>13. ASSUME NEW u \in Thread PROVE CheckOK(u)'
  <2> SUFFICES ASSUME pc[u] = "check", call[u].st = "asked", u # t PROVE CheckOK(u)'
    BY <1>2, <1>3 DEF CheckOK
  <2>1. loc[u].old.index \in Record /\ loc[u].old.index # Own(t) /\ CheckOK(u)
    BY <1>1 DEF SimTypes, Trying
  <2>2. Rec(loc[u].old.index)' = Rec(loc[u].old.index)
    <3>1. PICK i \in Record : i = loc[u].old.index
      BY <2>1
    <3>2. Rec(i)' = Rec(i) /\ loc'[u].old.index = i
      BY <1>2, <1>4, <2>1, <3>1
    <3> QED
      BY <3>1, <3>2 DEF Rec
  <2> QED
    BY <1>2, <1>6, <2>1, <2>2 DEF CheckOK, After1, After2, Agrees
<1>14. ASSUME NEW u \in Thread PROVE ResultOK(u)'
  <2> SUFFICES ASSUME call[u].st = "done" PROVE \E G \in SUBSET Record : ResultIn(u, G)'
    BY <1>2 DEF ResultOK
  <2>1. PICK G \in SUBSET Record : ResultIn(u, G)
    BY <1>1 DEF ResultOK
  <2>2. \A w \in Thread : Own(w)' = Own(w)
    BY <1>2 DEF Own
  <2>3. ASSUME NEW i \in G PROVE Rec(i)'.ret[u] = call'[u].ret /\ Agrees(u, Rec(i).applied)'
    <3>1. Rec(i).ret[u] = call[u].ret /\ Agrees(u, Rec(i).applied) /\ i \in Record
      BY <2>1 DEF ResultIn
    <3>2. CASE i = Own(t)
      <4>1. Rec(i)' = r
        <5>1. Own(t)' = i
          BY <2>2, <3>2
        <5> QED
          BY <1>4, <5>1 DEF Rec
      <4>2. r.ret[u] = call[u].ret /\ Agrees(u, r.applied)
        BY <2>1, <3>2
      <4> QED
        BY <1>2, <4>1, <4>2 DEF Agrees
    <3>3. CASE i # Own(t)
      BY <1>2, <1>4, <3>1, <3>3 DEF Agrees
    <3> QED
      BY <3>2, <3>3
  <2>4. Sp'.index \in G /\ Own(u)' \notin G
    BY <1>2, <2>1, <2>2 DEF ResultIn
  <2>5. ASSUME NEW w \in Thread \ {u}, Own(w)' \in G
        PROVE  /\ pc'[w] \in Trying => loc'[w].old.index \in G
               /\ pc'[w] \in Building => Agrees(u, loc[w].toggles)'
    <3>1. /\ pc[w] \in Trying => loc[w].old.index \in G
          /\ pc[w] \in Building => Agrees(u, loc[w].toggles)
      BY <2>1, <2>2, <2>5 DEF ResultIn
    <3> QED
      BY <1>2, <1>3, <1>6, <3>1
  <2>6. pc'[u] \in {"own", "fetch"} => loc'[u].old.index \in G
    BY <1>2, <1>3, <2>1 DEF ResultIn
  <2> QED
    BY <2>3, <2>4, <2>5, <2>6 DEF ResultIn
<1> QED
  BY <1>7, <1>8, <1>9, <1>10, <1>11, <1>12, <1>13, <1>14 DEF SimCallInv

(* A thread copies the current record into its own. *)
LEMMA SimCopies ==
  ASSUME prog \in SimPrograms, prog' = prog, CallsOK, SimCallInv, NEW t \in Thread, Sim!SimCopy(t)
  PROVE  Effect(t) /\ SimCallInv'
<1>1. SimTypes /\ BuildOK(t) /\ DOMAIN pc = Thread
  BY SimFrame
<1>2. PICK r : r = Rec(loc[t].old.index)
  OBVIOUS
<1>3. Go(t, "copy", "snapshot") /\ mem' = [mem EXCEPT !.obj[Own(t)] = r] /\ UNCHANGED <<loc, root, calls>>
  BY <1>2, SimHarness, SimFrame DEF Sim!SimCopy, Sim!calls, calls
<1>4. pc[t] = "copy" /\ "copy" \in Trying /\ loc[t].old.index \in Record
  BY <1>1, <1>3 DEF Go, SimTypes, Trying
<1>5. DOMAIN r = {"applied", "state", "ret"} /\ r.applied \subseteq Thread /\ DOMAIN r.ret = Thread
  BY <1>1, <1>2, <1>4 DEF SimTypes
<1>6. ASSUME NEW u \in Thread, NEW G \in SUBSET Record, ResultIn(u, G), Own(t) \in G
      PROVE  r.ret[u] = call[u].ret /\ Agrees(u, r.applied)
  <2>1. u # t
    BY <1>6 DEF ResultIn
  <2>2. loc[t].old.index \in G
    BY <1>4, <1>6, <2>1 DEF ResultIn
  <2> QED
    BY <1>2, <1>6, <2>2 DEF ResultIn
<1>7. Valid(t) => r = Rec(Sp.index)
  BY <1>2 DEF Valid
<1> QED
  BY <1>3, <1>5, <1>6, <1>7, SimWrites

-----------------------------------------------------------------------------
(* Applying the requests *)

(* The record after one more request, that of thread x. *)
Applying(b, x) ==
  LET r == Object!Serial(b.state, root.announce[x].op, root.announce[x].arg)
  IN  [b EXCEPT !.state = r[1], !.ret[x] = r[2]]

Applied(s, u) == \A i \in 1 .. Len(s) : u[i] = Applying(u[i - 1], s[i])

(* What ApplyAll comes to, one request after the other. *)
LEMMA ApplyAllIs ==
  ASSUME NEW t, NEW s, s = Sim!Served(t), Len(s) \in Nat
  PROVE  \E u : /\ u[0] = mem.obj[Sim!MyRecord(t)]
                /\ Applied(s, u)
                /\ Sim!ApplyAll(t) = [u[Len(s)] EXCEPT !.applied = loc[t].toggles]
<1> DEFINE B == mem.obj[Sim!MyRecord(t)]
           T == loc[t].toggles
           More(b, x) == LET r == Sim!Object!Serial(b.state, root.announce[x].op, root.announce[x].arg)
                         IN  [b EXCEPT !.state = r[1], !.ret[x] = r[2]]
           F(n, u) == u = [i \in 0 .. n |-> IF i = 0 THEN B ELSE More(u[i - 1], s[i])]
           U == CHOOSE u : F(Len(s), u)
<1>1. Sim!ApplyAll(t) = [U[Len(s)] EXCEPT !.applied = T]
  BY DEF Sim!ApplyAll
<1>2. \A b, x : More(b, x) = Applying(b, x)
  BY SimHarness DEF Applying
<1> HIDE DEF B, T, More
<1>3. \A n \in Nat : \E u : F(n, u)
  <2> SUFFICES ASSUME NEW n \in Nat, ~\E u : F(n, u) PROVE FALSE
    OBVIOUS
  <2> DEFINE Bad == {m \in Nat : ~\E u : F(m, u)}
  <2>1. PICK m \in Bad : \A k \in Bad : m <= k
    <3>1. n \in Bad
      OBVIOUS
    <3>2. Bad \subseteq Nat
      OBVIOUS
    <3> HIDE DEF Bad
    <3> QED
      BY <3>1, <3>2, Least
  <2>2. \A k \in Nat : k < m => \E u : F(k, u)
    <3> SUFFICES ASSUME NEW k \in Nat, k < m, ~\E u : F(k, u) PROVE FALSE
      OBVIOUS
    <3>1. k \in Bad /\ m \in Nat
      OBVIOUS
    <3> HIDE DEF Bad
    <3>2. m <= k
      BY <2>1, <3>1
    <3> QED
      BY <3>1, <3>2
  <2>3. CASE m = 0
    <3> DEFINE w == [i \in 0..0 |-> B]
    <3>1. F(0, w)
      OBVIOUS
    <3>2. F(m, w)
      BY <2>3, <3>1
    <3> QED
      BY <2>1, <3>2
  <2>4. CASE m # 0
    <3>1. m - 1 \in Nat /\ m - 1 < m
      BY <2>4
    <3>2. PICK v : F(m - 1, v)
      BY <2>2, <3>1
    <3> DEFINE w == [i \in 0 .. m |-> IF i = m THEN More(v[m - 1], s[m]) ELSE v[i]]
    <3>3. F(m, w)
      BY <3>1, <3>2, <2>4
    <3> QED
      BY <2>1, <3>3
  <2> QED
    BY <2>3, <2>4
<1>4. F(Len(s), U)
  BY <1>3
<1> HIDE DEF U
<1>5. /\ U[0] = B
      /\ \A i \in 1 .. Len(s) : U[i] = More(U[i - 1], s[i])
  BY <1>4
<1> QED
  BY <1>1, <1>2, <1>5 DEF B, T, Applied

(* Each request of the sequence leaves its result in the record, and no other. *)
LEMMA ResultsOf ==
  ASSUME NEW s \in Seq(Thread), NEW u, DOMAIN u[0] = {"applied", "state", "ret"}, DOMAIN u[0].ret = Thread,
         Applied(s, u)
  PROVE  /\ DOMAIN u[Len(s)] = {"applied", "state", "ret"} /\ DOMAIN u[Len(s)].ret = Thread
         /\ \A x \in Thread : (\A j \in 1 .. Len(s) : s[j] # x) => u[Len(s)].ret[x] = u[0].ret[x]
         /\ \A i \in 1 .. Len(s) : u[i].state = Object!Serial(u[i - 1].state, root.announce[s[i]].op, root.announce[s[i]].arg)[1]
         /\ (\A i, j \in 1 .. Len(s) : s[i] = s[j] => i = j) =>
              \A j \in 1 .. Len(s) :
                u[Len(s)].ret[s[j]] = Object!Serial(u[j - 1].state, root.announce[s[j]].op, root.announce[s[j]].arg)[2]
<1> DEFINE Res(j) == Object!Serial(u[j - 1].state, root.announce[s[j]].op, root.announce[s[j]].arg)
           P(i) == /\ DOMAIN u[i] = {"applied", "state", "ret"} /\ DOMAIN u[i].ret = Thread
                   /\ \A x \in Thread : (\A j \in 1 .. i : s[j] # x) => u[i].ret[x] = u[0].ret[x]
                   /\ i # 0 => u[i].state = Res(i)[1]
                   /\ (\A k, j \in 1 .. Len(s) : s[k] = s[j] => k = j) => \A j \in 1 .. i : u[i].ret[s[j]] = Res(j)[2]
           Bad == {i \in 0 .. Len(s) : ~P(i)}
<1>1. ASSUME Bad # {} PROVE FALSE
  <2>1. PICK m \in Bad : \A k \in Bad : m <= k
    <3>1. Bad \subseteq Nat
      OBVIOUS
    <3> HIDE DEF Bad
    <3> QED
      BY <1>1, <3>1, Least
  <2>2. m \in 0 .. Len(s) /\ Len(s) \in Nat /\ ~P(m)
    OBVIOUS
  <2>3. CASE m = 0
    BY <2>2, <2>3
  <2>4. CASE m # 0
    <3>1. m - 1 \in 0 .. Len(s) /\ ~(m <= m - 1) /\ m \in 1 .. Len(s) /\ m \in Nat
      BY <2>2, <2>4
    <3>2. P(m - 1)
      <4>1. m - 1 \notin Bad
        BY <2>1, <3>1
      <4> QED
        BY <3>1, <4>1
    <3>3. s[m] \in Thread
      BY <3>1
    <3>4. PICK b, r : b = u[m - 1] /\ r = Res(m)
      OBVIOUS
    <3>5. u[m] = [b EXCEPT !.state = r[1], !.ret[s[m]] = r[2]]
      BY <3>1, <3>4 DEF Applying, Applied
    <3>6. DOMAIN b = {"applied", "state", "ret"} /\ DOMAIN b.ret = Thread
      BY <3>2, <3>4
    <3> HIDE DEF P, Res, Bad
    <3>7. /\ DOMAIN u[m] = {"applied", "state", "ret"} /\ DOMAIN u[m].ret = Thread /\ u[m].state = r[1]
          /\ u[m].ret[s[m]] = r[2] /\ \A x \in Thread : x # s[m] => u[m].ret[x] = b.ret[x]
      BY <3>3, <3>5, <3>6
    <3>8. ASSUME NEW x \in Thread, \A j \in 1 .. m : s[j] # x PROVE u[m].ret[x] = u[0].ret[x]
      <4>1. s[m] # x /\ \A j \in 1 .. m - 1 : s[j] # x
        BY <3>1, <3>8
      <4> QED
        BY <3>2, <3>4, <3>7, <4>1 DEF P
    <3>9. ASSUME \A k, j \in 1 .. Len(s) : s[k] = s[j] => k = j, NEW j \in 1 .. m
          PROVE  u[m].ret[s[j]] = Res(j)[2]
      <4>1. CASE j = m
        BY <3>4, <3>7, <4>1
      <4>2. CASE j # m
        <5>1. j \in 1 .. m - 1 /\ j \in 1 .. Len(s)
          BY <3>1, <4>2
        <5>2. s[j] # s[m] /\ s[j] \in Thread
          BY <3>1, <3>9, <4>2, <5>1
        <5>3. b.ret[s[j]] = Res(j)[2]
          BY <3>2, <3>4, <3>9, <5>1 DEF P
        <5> QED
          BY <3>7, <5>2, <5>3
      <4> QED
        BY <4>1, <4>2
    <3>10. P(m)
      BY <3>4, <3>7, <3>8, <3>9 DEF P
    <3> QED
      BY <2>2, <3>10
  <2> QED
    BY <2>3, <2>4
<1>2. ASSUME NEW i \in 0 .. Len(s) PROVE P(i)
  BY <1>1
<1>3. Len(s) \in 0 .. Len(s) /\ \A i \in 1 .. Len(s) : i \in 0 .. Len(s) /\ i # 0
  OBVIOUS
<1> HIDE DEF P, Bad
<1>4. P(Len(s)) /\ \A i \in 1 .. Len(s) : P(i)
  BY <1>2, <1>3
<1> QED
  BY <1>3, <1>4 DEF P

-----------------------------------------------------------------------------
(* The threads that are served, in their order *)

(* Every thread of A, once. *)
Once(s, A) == /\ s \in Seq(A) /\ (\A i, j \in 1 .. Len(s) : s[i] = s[j] => i = j)
              /\ \A x \in A : \E i \in 1 .. Len(s) : s[i] = x

(* Two sequences of different threads, one after the other. *)
LEMMA Joined ==
  ASSUME NEW A, NEW B, A \cap B = {}, NEW a, NEW b, Once(a, A), Once(b, B)
  PROVE  Once(a \o b, A \cup B)
<1>0. a \in Seq(A) /\ b \in Seq(B)
  BY DEF Once
<1>1. /\ Len(a) \in Nat /\ Len(b) \in Nat /\ Len(a \o b) = Len(a) + Len(b)
      /\ \A i \in 1 .. Len(a \o b) : (a \o b)[i] = IF i <= Len(a) THEN a[i] ELSE b[i - Len(a)]
  BY <1>0
<1>2. PICK c, k, l : c = a \o b /\ k = Len(a) /\ l = Len(b)
  OBVIOUS
<1>3. \A i \in 1 .. k : c[i] = a[i] /\ a[i] \in A /\ i \in 1 .. k + l
  BY <1>0, <1>1, <1>2
<1>4. \A i \in 1 .. l : c[k + i] = b[i] /\ b[i] \in B /\ k + i \in 1 .. k + l
  <2> SUFFICES ASSUME NEW i \in 1 .. l PROVE c[k + i] = b[i] /\ b[i] \in B /\ k + i \in 1 .. k + l
    OBVIOUS
  <2>1. k + i \in 1 .. k + l /\ ~(k + i <= k) /\ k + i - k = i
    BY <1>1, <1>2
  <2>2. c[k + i] = b[i]
    BY <1>1, <1>2, <2>1
  <2>3. b[i] \in B
    BY <1>0, <1>2
  <2> QED
    BY <2>1, <2>2, <2>3
<1>5. \A i \in 1 .. k + l : i \in 1 .. k \/ \E j \in 1 .. l : i = k + j
  <2> SUFFICES ASSUME NEW i \in 1 .. k + l, i \notin 1 .. k PROVE \E j \in 1 .. l : i = k + j
    OBVIOUS
  <2>1. i - k \in 1 .. l /\ i = k + (i - k)
    BY <1>1, <1>2
  <2> QED
    BY <2>1
<1>6. ASSUME NEW i \in 1 .. k + l, NEW j \in 1 .. k + l, c[i] = c[j] PROVE i = j
  <2>1. CASE i \in 1 .. k /\ j \in 1 .. k
    BY <1>2, <1>3, <1>6, <2>1 DEF Once
  <2>2. CASE i \notin 1 .. k /\ j \notin 1 .. k
    <3>1. PICK g \in 1 .. l, h \in 1 .. l : i = k + g /\ j = k + h
      BY <1>5, <2>2
    <3>2. b[g] = b[h] /\ g \in 1 .. Len(b) /\ h \in 1 .. Len(b)
      BY <1>2, <1>4, <1>6, <3>1
    <3>3. g = h
      BY <3>2 DEF Once
    <3> QED
      BY <3>1, <3>3
  <2>3. \A g \in 1 .. k, h \in 1 .. l : c[g] # c[k + h]
    BY <1>3, <1>4
  <2>4. CASE i \in 1 .. k /\ j \notin 1 .. k
    BY <1>5, <1>6, <2>3, <2>4
  <2>5. CASE i \notin 1 .. k /\ j \in 1 .. k
    BY <1>5, <1>6, <2>3, <2>5
  <2> QED
    BY <2>1, <2>2, <2>4, <2>5
<1>7. ASSUME NEW x \in A \cup B PROVE \E i \in 1 .. k + l : c[i] = x
  <2>1. CASE x \in A
    <3>1. PICK i \in 1 .. k : a[i] = x
      BY <1>2, <2>1 DEF Once
    <3> QED
      BY <1>3, <3>1
  <2>2. CASE x \in B
    <3>1. PICK i \in 1 .. l : b[i] = x
      BY <1>2, <2>2 DEF Once
    <3> QED
      BY <1>4, <3>1
  <2> QED
    BY <2>1, <2>2
<1>8. c \in Seq(A \cup B) /\ Len(c) = k + l
  <2>1. a \in Seq(A \cup B) /\ b \in Seq(A \cup B)
    BY <1>0
  <2> QED
    BY <1>1, <1>2, <2>1
<1> QED
  BY <1>2, <1>6, <1>7, <1>8 DEF Once

(* The same in one word. *)
LEMMA FirstBitsOnce ==
  ASSUME NEW A \in SUBSET Thread
  PROVE  Once(Sim!FirstBits(A), A)
BY FirstBitsIs DEF Once

(* The order in which a thread applies the requests whose bits differ: each once. *)
LEMMA ServedIs ==
  ASSUME prog \in SimPrograms, CallsOK, SimCallInv, NEW t \in Thread,
         NEW D, D = {x \in Thread : ~(x \in Rec(Own(t)).applied <=> x \in loc[t].toggles)}
  PROVE  /\ Sim!Served(t) \in Seq(Thread)
         /\ \A i \in 1 .. Len(Sim!Served(t)) : Sim!Served(t)[i] \in D \cup {t}
         /\ t \in D => Once(Sim!Served(t), D)
<1>1. SimTypes /\ Own(t) \in Record /\ Sim!MyRecord(t) = Own(t) /\ Sim!Side(t) = "obj"
  BY SimFrame
<1>2. Rec(Own(t)).applied \subseteq Thread /\ loc[t].toggles \subseteq Thread
  BY <1>1 DEF SimTypes
<1>3. Sim!Diffs(t) = D
  BY <1>1, <1>2 DEF Sim!Diffs, Sim!Xor, Rec
<1>4. CASE prog = "sim"
  <2> DEFINE B == Sim!ReverseBit(Sim!Diffs(t), t)
  <2>1. B \subseteq D \cup {t} /\ B \subseteq Thread /\ (t \in D => B = D \ {t})
    BY <1>3 DEF Sim!ReverseBit, Sim!Xor
  <2>2. Sim!Served(t) = <<t>> \o Sim!FirstBits(B)
    BY <1>4 DEF Sim!Served
  <2> HIDE DEF B
  <2>3. PICK a, b, c : a = <<t>> /\ b = Sim!FirstBits(B) /\ c = a \o b
    OBVIOUS
  <2>4. Once(b, B)
    BY <2>1, <2>3, FirstBitsOnce
  <2>5. Once(a, {t})
    BY <2>3 DEF Once
  <2>6. c = Sim!Served(t)
    BY <2>2, <2>3
  <2>7. c \in Seq(Thread) /\ \A i \in 1 .. Len(c) : c[i] \in D \cup {t}
    <3>1. B \subseteq D \cup {t} /\ D \cup {t} \subseteq Thread
      BY <2>1
    <3>2. b \in Seq(D \cup {t}) /\ a \in Seq(D \cup {t})
      BY <2>4, <2>5, <3>1 DEF Once
    <3>3. c \in Seq(D \cup {t})
      BY <2>3, <3>2
    <3> QED
      BY <3>1, <3>3
  <2>8. ASSUME t \in D PROVE Once(c, D)
    <3>1. {t} \cap B = {} /\ {t} \cup B = D
      BY <2>1, <2>8
    <3>2. Once(c, {t} \cup B)
      BY <2>3, <2>4, <2>5, <3>1, Joined
    <3> QED
      BY <3>1, <3>2
  <2> QED
    BY <2>6, <2>7, <2>8
<1>5. CASE prog = "simstack"
  <2>1. PICK P : P = {x \in D : root.announce[x].op = "push"}
    OBVIOUS
  <2>2. PICK Q : Q = {x \in D : ~(root.announce[x].op = "push")}
    OBVIOUS
  <2>3. P \cap Q = {} /\ P \cup Q = D /\ P \in SUBSET Thread /\ Q \in SUBSET Thread
    BY <2>1, <2>2
  <2>4. Sim!Served(t) = Sim!FirstBits(P) \o Sim!FirstBits(Q)
    BY <1>3, <1>5, <2>1, <2>2 DEF Sim!Served
  <2>5. PICK a, b : a = Sim!FirstBits(P) /\ b = Sim!FirstBits(Q)
    OBVIOUS
  <2>6. PICK c : c = a \o b
    OBVIOUS
  <2>7. Once(a, P) /\ Once(b, Q)
    BY <2>3, <2>5, FirstBitsOnce
  <2>8. Once(c, P \cup Q)
    BY <2>3, <2>6, <2>7, Joined
  <2>9. Once(c, D) /\ D \subseteq Thread
    BY <2>3, <2>8
  <2>10. c \in Seq(Thread) /\ \A i \in 1 .. Len(c) : c[i] \in D \cup {t}
    BY <2>9 DEF Once
  <2>11. c = Sim!Served(t)
    BY <2>4, <2>5, <2>6
  <2> QED
    BY <2>9, <2>10, <2>11
<1> QED
  BY <1>4, <1>5 DEF SimPrograms

(* A thread applies to its copy every request whose bit differs. *)
LEMMA SimApplies ==
  ASSUME prog \in SimPrograms, prog' = prog, CallsOK, SimCallInv, NEW t \in Thread, Sim!SimApply(t)
  PROVE  Effect(t) /\ SimCallInv'
<1>1. /\ SimTypes /\ BuildOK(t) /\ DOMAIN pc = Thread /\ Own(t) \in Record /\ Sim!MyRecord(t) = Own(t)
      /\ \A u \in Thread : BitsOK(u) /\ CallOK(u)
  BY SimFrame
<1>2. PICK r : r = Sim!ApplyAll(t)
  OBVIOUS
<1>3. Go(t, "apply", "swap") /\ mem' = [mem EXCEPT !.obj[Own(t)] = r] /\ UNCHANGED <<loc, root, calls>>
  BY <1>1, <1>2, SimHarness DEF Sim!SimApply, Sim!calls, calls
<1>4. pc[t] = "apply" /\ "apply" \in Trying /\ "apply" \in Building
  BY <1>1, <1>3 DEF Go, Trying, Building
<1>5. PICK b : b = Rec(Own(t))
  OBVIOUS
<1>6. DOMAIN b = {"applied", "state", "ret"} /\ b.applied \subseteq Thread /\ DOMAIN b.ret = Thread
  BY <1>1, <1>5 DEF SimTypes
<1>7. PICK D : D = {x \in Thread : ~(x \in b.applied <=> x \in loc[t].toggles)}
  OBVIOUS
<1>8. PICK s : s = Sim!Served(t)
  OBVIOUS
<1>9. /\ s \in Seq(Thread) /\ (\A i \in 1 .. Len(s) : s[i] \in D \cup {t})
      /\ t \in D => Once(s, D)
  BY <1>5, <1>7, <1>8, ServedIs
<1>10. PICK u : /\ u[0] = b
                /\ Applied(s, u)
                /\ r = [u[Len(s)] EXCEPT !.applied = loc[t].toggles]
  <2>1. Len(s) \in Nat /\ mem.obj[Sim!MyRecord(t)] = b
    BY <1>1, <1>5, <1>9 DEF Rec
  <2> QED
    BY <1>2, <1>8, <2>1, ApplyAllIs
<1>11. /\ DOMAIN u[Len(s)] = {"applied", "state", "ret"} /\ DOMAIN u[Len(s)].ret = Thread
       /\ \A x \in Thread : (\A j \in 1 .. Len(s) : s[j] # x) => u[Len(s)].ret[x] = b.ret[x]
       /\ \A i \in 1 .. Len(s) : u[i].state = Object!Serial(u[i - 1].state, root.announce[s[i]].op, root.announce[s[i]].arg)[1]
       /\ (\A i, j \in 1 .. Len(s) : s[i] = s[j] => i = j) =>
            \A j \in 1 .. Len(s) :
              u[Len(s)].ret[s[j]] = Object!Serial(u[j - 1].state, root.announce[s[j]].op, root.announce[s[j]].arg)[2]
  <2>1. DOMAIN u[0] = {"applied", "state", "ret"} /\ DOMAIN u[0].ret = Thread
    BY <1>6, <1>10
  <2>2. Applied(s, u)
    BY <1>10
  <2>3. s \in Seq(Thread)
    BY <1>9
  <2>4. u[0] = b
    BY <1>10
  <2> QED
    BY <2>1, <2>2, <2>3, <2>4, ResultsOf
<1>12. /\ DOMAIN r = {"applied", "state", "ret"} /\ r.applied = loc[t].toggles /\ r.ret = u[Len(s)].ret
       /\ r.state = u[Len(s)].state /\ DOMAIN r.ret = Thread
  BY <1>10, <1>11
<1>13. r.applied \subseteq Thread
  BY <1>1, <1>12 DEF SimTypes
<1>14. ASSUME NEW x \in Thread, NEW G \in SUBSET Record, ResultIn(x, G), Own(t) \in G
       PROVE  r.ret[x] = call[x].ret /\ Agrees(x, r.applied)
  <2>1. x # t
    BY <1>14 DEF ResultIn
  <2>2. Agrees(x, loc[t].toggles) /\ b.ret[x] = call[x].ret /\ Agrees(x, b.applied)
    BY <1>4, <1>5, <1>14, <2>1 DEF ResultIn
  <2>3. x \notin D
    BY <1>7, <2>2 DEF Agrees
  <2>4. \A j \in 1 .. Len(s) : s[j] # x
    BY <1>9, <2>1, <2>3
  <2> QED
    BY <1>11, <1>12, <2>2, <2>4
<1>15. ASSUME Valid(t) PROVE Built(Rec(Sp.index), r, loc[t].toggles)
  <2>1. b = Rec(Sp.index) /\ Agrees(t, loc[t].toggles) /\ \A x \in D : Due(x)
    BY <1>1, <1>4, <1>5, <1>7, <1>15 DEF BuildOK
  <2>2. t \in D
    <3>1. call[t].st = "asked" /\ "apply" \in Trying \ {"check"} /\ "apply" \notin {"idle", "toggle"}
      BY <1>1, <1>4, <1>15 DEF BitsOK
    <3>2. ~Agrees(t, Rec(Sp.index).applied)
      BY <1>1, <1>4, <3>1 DEF BitsOK
    <3> QED
      BY <1>7, <2>1, <3>2 DEF Agrees
  <2>3. /\ \A i, j \in 1 .. Len(s) : s[i] = s[j] => i = j
        /\ \A i \in 1 .. Len(s) : s[i] \in D /\ s[i] \in Thread
        /\ \A x \in Thread : (\E i \in 1 .. Len(s) : s[i] = x) <=> x \in D
    <3>1. Once(s, D)
      BY <1>9, <2>2
    <3>2. \A i \in 1 .. Len(s) : s[i] \in D /\ s[i] \in Thread
      BY <1>9, <2>2
    <3> QED
      BY <1>9, <2>2, <3>1, <3>2 DEF Once
  <2>4. ASSUME NEW i \in 1 .. Len(s)
        PROVE  root.announce[s[i]].op = call[s[i]].op /\ root.announce[s[i]].arg = call[s[i]].arg
    <3>1. s[i] \in Thread /\ pc[s[i]] # "idle"
      BY <2>1, <2>3 DEF Due
    <3>2. root.announce[s[i]] = [op |-> call[s[i]].op, arg |-> call[s[i]].arg]
      BY <1>1, <3>1 DEF BitsOK
    <3> QED
      BY <3>2
  <2> DEFINE v == [i \in 0 .. Len(s) |-> u[i].state]
  <2>5. /\ Len(s) \in Nat /\ v[0] = b.state /\ v[Len(s)] = r.state
        /\ \A i \in 1 .. Len(s) : v[i] = u[i].state /\ v[i - 1] = u[i - 1].state
    <3>1. Len(s) \in Nat /\ 0 \in 0 .. Len(s) /\ Len(s) \in 0 .. Len(s)
      BY <1>9
    <3>2. \A i \in 1 .. Len(s) : i \in 0 .. Len(s) /\ i - 1 \in 0 .. Len(s)
      BY <1>9
    <3> QED
      BY <1>10, <1>12, <3>1, <3>2
  <2> HIDE DEF v
  <2>6. \A i \in 1 .. Len(s) : LET q == Object!Serial(v[i - 1], call[s[i]].op, call[s[i]].arg)
                               IN  v[i] = q[1] /\ r.ret[s[i]] = q[2]
    <3> SUFFICES ASSUME NEW i \in 1 .. Len(s)
                 PROVE  /\ v[i] = Object!Serial(v[i - 1], call[s[i]].op, call[s[i]].arg)[1]
                        /\ r.ret[s[i]] = Object!Serial(v[i - 1], call[s[i]].op, call[s[i]].arg)[2]
      OBVIOUS
    <3>1. /\ v[i] = u[i].state /\ v[i - 1] = u[i - 1].state
          /\ root.announce[s[i]].op = call[s[i]].op /\ root.announce[s[i]].arg = call[s[i]].arg
      BY <2>4, <2>5
    <3>2. /\ u[i].state = Object!Serial(u[i - 1].state, root.announce[s[i]].op, root.announce[s[i]].arg)[1]
          /\ u[Len(s)].ret[s[i]] = Object!Serial(u[i - 1].state, root.announce[s[i]].op, root.announce[s[i]].arg)[2]
      BY <1>11, <2>3
    <3> QED
      BY <1>12, <3>1, <3>2
  <2>7. \A x \in Thread : (\A i \in 1 .. Len(s) : s[i] # x) => r.ret[x] = b.ret[x]
    BY <1>11, <1>12
  <2>8. Built(b, r, loc[t].toggles)
    BY <1>7, <1>9, <1>12, <2>3, <2>5, <2>6, <2>7 DEF Built
  <2> QED
    BY <2>1, <2>8
<1> QED
  BY <1>3, <1>6, <1>12, <1>13, <1>14, <1>15, SimWrites

-----------------------------------------------------------------------------
(* Calls, and the result a thread fetches *)

(* A step of a thread that is not trying: only its bit, its announcement and
   its call change. *)
LEMMA SimOutside ==
  ASSUME prog \in SimPrograms, prog' = prog, CallsOK, SimCallInv, NEW t \in Thread, Effect(t),
         NEW from, NEW to, Go(t, from, to), from \notin Trying \cup {"read"}, to \notin Trying, ~Due(t),
         mem' = mem, obj' = obj, Sp' = Sp, SimTypes', \A u \in Thread \ {t} : loc'[u] = loc[u] /\ call'[u] = call[u],
         loc'[t].index = loc[t].index,
         \A u \in Thread \ {t} : root'.announce[u] = root.announce[u] /\ (u \in Toggles' <=> u \in Toggles),
         BitsOK(t)', TriesOK(t)', call'[t].st # "done"
  PROVE  SimCallInv'
<1>1. /\ SimTypes /\ OwnerOK /\ DOMAIN pc = Thread
      /\ \A u \in Thread : BitsOK(u) /\ BuildOK(u) /\ TriesOK(u) /\ CheckOK(u) /\ ResultOK(u)
  BY SimFrame
<1>2. /\ pc[t] = from /\ pc'[t] = to /\ (\A u \in Thread \ {t} : pc'[u] = pc[u])
      /\ Building \subseteq Trying /\ "check" \in Trying /\ "snapshot" \in Trying
  BY <1>1 DEF Go, Building, Trying
<1>3. /\ \A u \in Thread : loc'[u].index = loc[u].index /\ Own(u)' = Own(u)
      /\ \A i : Rec(i)' = Rec(i)
      /\ \A u \in Thread \ {t} : /\ \A S : Agrees(u, S)' <=> Agrees(u, S)
                                 /\ Agrees(u, Toggles)' <=> Agrees(u, Toggles)
                                 /\ Valid(u)' <=> Valid(u)
                                 /\ Due(u)' <=> Due(u)
  <2>1. \A u \in Thread : loc'[u].index = loc[u].index
    OBVIOUS
  <2> QED
    BY <1>2, <2>1 DEF Own, Rec, Agrees, Valid, Due
<1>4. OwnerOK' /\ (Rec(Sp.index).state = obj)'
  BY <1>1, <1>3 DEF OwnerOK, After1, SimCallInv, Rec
<1>5. ASSUME NEW u \in Thread \ {t} PROVE BitsOK(u)'
  <2>1. BitsOK(u) /\ loc'[u] = loc[u] /\ pc'[u] = pc[u] /\ call'[u] = call[u] /\ root'.announce[u] = root.announce[u]
    BY <1>1, <1>2
  <2>2. Agrees(u, Rec(Sp.index).applied)' <=> Agrees(u, Rec(Sp.index).applied)
    BY <2>1 DEF Agrees, Rec
  <2> QED
    BY <1>3, <2>1, <2>2 DEF BitsOK
<1>6. ASSUME NEW u \in Thread \ {t} PROVE BuildOK(u)'
  <2>1. BuildOK(u) /\ loc'[u] = loc[u] /\ pc'[u] = pc[u]
    BY <1>1, <1>2
  <2>2. PICK a, b, c : a = Rec(Sp.index) /\ b = Rec(Own(u)) /\ c = loc[u].toggles
    OBVIOUS
  <2>3. Rec(Sp.index)' = a /\ Rec(Own(u))' = b /\ loc'[u].toggles = c
    BY <1>3, <2>1, <2>2 DEF Rec
  <2>4. ASSUME pc[u] \in Building, Valid(u)
        PROVE  \A x \in Thread : ~(x \in a.applied <=> x \in c) => x # t /\ Due(x) /\ Due(x)' /\ call'[x] = call[x]
    <3>1. \A x \in Thread : ~(x \in a.applied <=> x \in c) => Due(x)
      BY <2>1, <2>2, <2>4 DEF BuildOK
    <3> QED
      BY <1>3, <3>1
  <2>5. ASSUME Built(a, b, c), \A x \in Thread : ~(x \in a.applied <=> x \in c) => call'[x] = call[x]
        PROVE  Built(a, b, c)'
    <3>1. PICK s \in Seq(Thread) :
            /\ \A i, j \in 1 .. Len(s) : s[i] = s[j] => i = j
            /\ \A x \in Thread : (\E i \in 1 .. Len(s) : s[i] = x) <=> ~(x \in a.applied <=> x \in c)
            /\ \A x \in Thread : (\A i \in 1 .. Len(s) : s[i] # x) => b.ret[x] = a.ret[x]
            /\ b.applied = c
            /\ \E v : /\ v[0] = a.state
                      /\ \A i \in 1 .. Len(s) : LET r == Object!Serial(v[i - 1], call[s[i]].op, call[s[i]].arg)
                                                IN  v[i] = r[1] /\ b.ret[s[i]] = r[2]
                      /\ b.state = v[Len(s)]
      BY <2>5 DEF Built
    <3>2. PICK v : /\ v[0] = a.state
                   /\ \A i \in 1 .. Len(s) : LET r == Object!Serial(v[i - 1], call[s[i]].op, call[s[i]].arg)
                                             IN  v[i] = r[1] /\ b.ret[s[i]] = r[2]
                   /\ b.state = v[Len(s)]
      BY <3>1
    <3>3. \A i \in 1 .. Len(s) : call'[s[i]] = call[s[i]]
      <4> SUFFICES ASSUME NEW i \in 1 .. Len(s) PROVE call'[s[i]] = call[s[i]]
        OBVIOUS
      <4>1. s[i] \in Thread
        OBVIOUS
      <4> QED
        BY <2>5, <3>1, <4>1
    <3>4. \A i \in 1 .. Len(s) : LET r == Object!Serial(v[i - 1], call'[s[i]].op, call'[s[i]].arg)
                                 IN  v[i] = r[1] /\ b.ret[s[i]] = r[2]
      BY <3>2, <3>3
    <3> QED
      BY <3>1, <3>2, <3>4 DEF Built
  <2>6. pc[u] = "swap" => pc[u] \in Building
    BY DEF Building
  <2>7. Agrees(u, loc[u].toggles)' <=> Agrees(u, loc[u].toggles)
    BY <1>3, <2>1 DEF Agrees
  <2>8. (Rec(Own(u)) = Rec(Sp.index))' <=> Rec(Own(u)) = Rec(Sp.index)
    BY <2>2, <2>3
  <2>9. pc[u] = "swap" /\ Valid(u) => Built(Rec(Sp.index), Rec(Own(u)), loc[u].toggles)'
    <3> SUFFICES ASSUME pc[u] = "swap", Valid(u) PROVE Built(Rec(Sp.index), Rec(Own(u)), loc[u].toggles)'
      OBVIOUS
    <3>1. Built(Rec(Sp.index), Rec(Own(u)), loc[u].toggles)
      BY <2>1 DEF BuildOK
    <3>2. Built(a, b, c)
      BY <2>2, <3>1
    <3>3. Built(a, b, c)'
      BY <2>4, <2>5, <2>6, <3>2
    <3>4. Built(Rec(Sp.index), Rec(Own(u)), loc[u].toggles)' <=> Built(a, b, c)'
      BY <2>3 DEF Built
    <3> QED
      BY <3>3, <3>4
  <2>10. pc[u] \in Building /\ Valid(u) => \A x \in Thread : ~(x \in Rec(Sp.index)'.applied <=> x \in loc'[u].toggles) => Due(x)'
    BY <2>3, <2>4
  <2> QED
    BY <1>3, <2>1, <2>7, <2>8, <2>9, <2>10 DEF BuildOK
<1>7. ASSUME NEW u \in Thread \ {t} PROVE TriesOK(u)'
  <2>1. TriesOK(u) /\ loc'[u] = loc[u] /\ pc'[u] = pc[u] /\ call'[u] = call[u] /\ (Valid(u)' <=> Valid(u)) /\ (Due(u)' <=> Due(u))
    BY <1>1, <1>2, <1>3
  <2>2. ASSUME NEW w \in Thread, pc'[w] \in Building, Valid(w)'
        PROVE  w # t /\ pc[w] \in Building /\ Valid(w) /\ loc'[w] = loc[w]
    BY <1>2, <1>3, <2>2
  <2>3. \A w \in Thread \ {t} : Agrees(u, loc[w].toggles)' <=> Agrees(u, loc[w].toggles)
    BY <1>3 DEF Agrees
  <2> QED
    BY <2>1, <2>2, <2>3 DEF TriesOK
<1>8. ASSUME NEW u \in Thread \ {t} PROVE CheckOK(u)'
  <2>1. CheckOK(u) /\ loc'[u] = loc[u] /\ pc'[u] = pc[u] /\ call'[u] = call[u] /\ (Valid(u)' <=> Valid(u))
    BY <1>1, <1>2, <1>3
  <2> QED
    BY <1>3, <2>1 DEF CheckOK, After1, After2, Agrees, Rec
<1>9. ASSUME NEW u \in Thread \ {t} PROVE ResultOK(u)'
  <2> SUFFICES ASSUME call[u].st = "done" PROVE \E G \in SUBSET Record : ResultIn(u, G)'
    BY DEF ResultOK
  <2>1. PICK G \in SUBSET Record : ResultIn(u, G)
    BY <1>1 DEF ResultOK
  <2>2. \A i \in G : Rec(i)'.ret[u] = call'[u].ret /\ Agrees(u, Rec(i).applied)'
    BY <1>3, <2>1 DEF ResultIn, Agrees
  <2>3. ASSUME NEW w \in Thread \ {u}, Own(w)' \in G
        PROVE  /\ pc'[w] \in Trying => loc'[w].old.index \in G
               /\ pc'[w] \in Building => Agrees(u, loc[w].toggles)'
    <3>1. CASE w = t
      BY <1>2, <3>1
    <3>2. CASE w # t
      BY <1>2, <1>3, <2>1, <2>3, <3>2 DEF ResultIn, Agrees
    <3> QED
      BY <3>1, <3>2
  <2>4. Sp'.index \in G /\ Own(u)' \notin G /\ (pc'[u] \in {"own", "fetch"} => loc'[u].old.index \in G)
    BY <1>2, <1>3, <2>1 DEF ResultIn
  <2> QED
    BY <2>2, <2>3, <2>4 DEF ResultIn
<1>10. BuildOK(t)' /\ CheckOK(t)' /\ ResultOK(t)'
  <2>1. to \notin Building /\ to # "check" /\ to \notin {"snapshot", "recheck", "apply", "swap"}
    BY <1>2 DEF Trying
  <2> QED
    BY <1>2, <2>1 DEF BuildOK, CheckOK, ResultOK
<1> QED
  BY <1>4, <1>5, <1>6, <1>7, <1>8, <1>9, <1>10 DEF SimCallInv

(* A thread announces what it asks for. *)
LEMMA SimAnnounces ==
  ASSUME prog \in SimPrograms, prog' = prog, CallsOK, SimCallInv, NEW t \in Thread, Sim!SimAnnounce(t)
  PROVE  Effect(t) /\ SimCallInv'
<1>1. /\ SimTypes /\ DOMAIN pc = Thread /\ DOMAIN call = Thread /\ BitsOK(t)
  BY SimFrame
<1>2. /\ Call(t, "toggle") /\ mem' = mem
      /\ root' = [root EXCEPT !.announce[t] = [op |-> call'[t].op, arg |-> call'[t].arg]]
      /\ loc' = [loc EXCEPT ![t].bit.obj = ~loc[t].bit.obj]
  BY SimHarness DEF Sim!SimAnnounce
<1>3. /\ Go(t, "idle", "toggle") /\ obj' = obj /\ pc[t] = "idle" /\ pc'[t] = "toggle"
      /\ call'[t].st = "asked" /\ \A u \in Thread \ {t} : call'[u] = call[u]
  BY <1>1, <1>2 DEF Call, Go, Object!Idle
<1>4. PICK a : a = [op |-> call'[t].op, arg |-> call'[t].arg]
  OBVIOUS
<1>5. /\ root'.announce[t] = a /\ DOMAIN root'.announce = Thread /\ DOMAIN root' = DOMAIN root
      /\ root'.sp = root.sp /\ root'.a_toggles = root.a_toggles
      /\ \A u \in Thread \ {t} : root'.announce[u] = root.announce[u]
  BY <1>1, <1>2, <1>4 DEF SimTypes
<1>6. Sp' = Sp /\ Toggles' = Toggles
  BY <1>5 DEF Sp, Toggles
<1>7. /\ DOMAIN loc' = Thread /\ DOMAIN loc'[t] = DOMAIN loc[t] /\ DOMAIN loc'[t].bit = {"obj"}
      /\ loc'[t].bit.obj = ~loc[t].bit.obj /\ loc'[t].index = loc[t].index /\ loc'[t].j = loc[t].j
      /\ loc'[t].old = loc[t].old /\ loc'[t].toggles = loc[t].toggles
      /\ \A u \in Thread \ {t} : loc'[u] = loc[u]
  BY <1>1, <1>2 DEF SimTypes
<1>8. "idle" \notin Trying \cup {"read"} /\ "toggle" \notin Trying /\ "toggle" \notin {"own", "fetch"} /\ "toggle" \in SimLabel
  BY DEF Trying, SimLabel
<1>9. SimTypes'
  <2>1. pc' \in [Thread -> SimLabel]
    BY <1>1, <1>3, <1>8 DEF SimTypes, Go
  <2>2. loc'[t].bit.obj \in BOOLEAN
    BY <1>7
  <2>3. loc'[t].j = 0
    BY <1>1, <1>3, <1>7 DEF BitsOK
  <2>4. \A u \in Thread \ {t} : pc'[u] = pc[u]
    BY <1>1, <1>3 DEF Go
  <2>5. ASSUME NEW u \in Thread
        PROVE  /\ DOMAIN loc'[u] = {"bit", "index", "j", "old", "toggles"} /\ DOMAIN loc'[u].bit = {"obj"} /\ DOMAIN loc'[u].index = {"obj"}
               /\ loc'[u].bit.obj \in BOOLEAN /\ loc'[u].index.obj \in Pool /\ loc'[u].toggles \subseteq Thread
               /\ loc'[u].old.seq \in Int /\ loc'[u].old.seq <= Sp.seq
               /\ pc'[u] \in Trying \cup {"own", "fetch"} => loc'[u].old.index \in Record
               /\ loc'[u].j \in {0, 1, 2} /\ (pc'[u] \in Trying \cup {"idle", "toggle", "read"} => loc'[u].j # 2)
    <3>1. CASE u = t
      BY <1>1, <1>3, <1>7, <1>8, <2>2, <2>3, <3>1 DEF SimTypes
    <3>2. CASE u # t
      <4>1. loc'[u] = loc[u] /\ pc'[u] = pc[u]
        BY <1>7, <2>4, <3>2
      <4> QED
        BY <1>1, <4>1 DEF SimTypes
    <3> QED
      BY <3>1, <3>2
  <2>6. /\ DOMAIN mem' = {"obj"} /\ DOMAIN mem'.obj = Record
        /\ \A i \in Record : DOMAIN Rec(i)' = {"applied", "state", "ret"} /\ Rec(i)'.applied \subseteq Thread
                       /\ DOMAIN Rec(i)'.ret = Thread
    BY <1>1, <1>2 DEF SimTypes, Rec
  <2>7. /\ DOMAIN root' = {"sp", "a_toggles", "announce"} /\ DOMAIN root'.sp = {"obj"} /\ DOMAIN root'.a_toggles = {"obj"}
        /\ DOMAIN Sp' = {"seq", "index"} /\ Sp'.seq \in Nat /\ Sp'.index \in Record /\ Toggles' \subseteq Thread
    BY <1>1, <1>5, <1>6 DEF SimTypes
  <2> QED
    BY <1>5, <1>6, <1>7, <2>1, <2>5, <2>6, <2>7 DEF SimTypes
<1>10. BitsOK(t)'
  <2>1. Agrees(t, Toggles) /\ Agrees(t, Rec(Sp.index).applied) /\ loc[t].j = 0
    BY <1>1, <1>3 DEF BitsOK
  <2>2. loc[t].bit.obj \in BOOLEAN
    BY <1>1 DEF SimTypes
  <2>3. ~Agrees(t, Toggles)' /\ ~Agrees(t, Rec(Sp.index).applied)'
    BY <1>2, <1>6, <1>7, <2>1, <2>2 DEF Agrees, Rec
  <2> QED
    BY <1>3, <1>4, <1>5, <1>7, <1>8, <2>1, <2>3 DEF BitsOK
<1>11. TriesOK(t)' /\ ~Due(t)
  BY <1>3, <1>8 DEF TriesOK, Due
<1>12. Effect(t)
  BY <1>2 DEF Effect, Asks
<1>13. loc'[t].index = loc[t].index /\ call'[t].st # "done"
  BY <1>3, <1>7
<1> QED
  BY <1>2, <1>3, <1>5, <1>6, <1>7, <1>8, <1>9, <1>10, <1>11, <1>12, <1>13, SimOutside

(* A thread flips its bit in a_toggles. *)
LEMMA SimToggles ==
  ASSUME prog \in SimPrograms, prog' = prog, CallsOK, SimCallInv, NEW t \in Thread, Sim!SimToggle(t)
  PROVE  Effect(t) /\ SimCallInv'
<1>1. /\ SimTypes /\ DOMAIN pc = Thread /\ DOMAIN call = Thread /\ BitsOK(t)
  BY SimFrame
<1>2. /\ Go(t, "toggle", "read") /\ UNCHANGED <<loc, mem, calls>>
      /\ root' = [root EXCEPT !.a_toggles.obj = Sim!ReverseBit(Toggles, t)]
  BY SimHarness, SimFrame DEF Sim!SimToggle, Sim!calls, calls, Toggles
<1>3. /\ pc[t] = "toggle" /\ pc'[t] = "read" /\ call' = call /\ obj' = obj
      /\ \A u \in Thread \ {t} : pc'[u] = pc[u]
  BY <1>1, <1>2 DEF Go, calls
<1>4. PICK S : S = Sim!ReverseBit(Toggles, t)
  OBVIOUS
<1>5. S \subseteq Thread /\ (t \in S <=> t \notin Toggles) /\ \A u \in Thread \ {t} : u \in S <=> u \in Toggles
  BY <1>1, <1>4 DEF Sim!ReverseBit, Sim!Xor, SimTypes
<1>6. /\ DOMAIN root' = DOMAIN root /\ root'.sp = root.sp /\ root'.announce = root.announce
      /\ DOMAIN root'.a_toggles = {"obj"} /\ root'.a_toggles.obj = S
  BY <1>1, <1>2, <1>4 DEF SimTypes
<1>7. Sp' = Sp /\ Toggles' = S
  BY <1>6 DEF Sp, Toggles
<1>8. "toggle" \notin Trying \cup {"read"} /\ "read" \notin Trying /\ "read" \notin {"own", "result", "fetch"} /\ "read" \in SimLabel
  BY DEF Trying, SimLabel
<1>9. loc[t].j = 0 /\ ~Agrees(t, Toggles) /\ ~Agrees(t, Rec(Sp.index).applied) /\ call[t].st = "asked" /\ loc[t].bit.obj \in BOOLEAN
  BY <1>1, <1>3 DEF BitsOK, SimTypes
<1>10. SimTypes'
  <2>1. pc' \in [Thread -> SimLabel]
    BY <1>1, <1>2, <1>8 DEF SimTypes, Go
  <2>2. \A u \in Thread : /\ pc'[u] \in Trying \cup {"own", "fetch"} => loc[u].old.index \in Record
                          /\ pc'[u] \in Trying \cup {"idle", "toggle", "read"} => loc[u].j # 2
    BY <1>1, <1>3, <1>8, <1>9 DEF SimTypes
  <2> QED
    BY <1>1, <1>2, <1>5, <1>6, <1>7, <2>1, <2>2 DEF SimTypes, Rec
<1>11. BitsOK(t)'
  <2>1. Agrees(t, Toggles)'
    BY <1>2, <1>5, <1>7, <1>9 DEF Agrees
  <2>2. ~Agrees(t, Rec(Sp.index).applied)'
    BY <1>2, <1>7, <1>9 DEF Agrees, Rec
  <2> QED
    BY <1>1, <1>3, <1>6, <1>8, <1>9, <2>1, <2>2 DEF BitsOK
<1>12. TriesOK(t)' /\ ~Due(t)
  BY <1>2, <1>3, <1>8, <1>9 DEF TriesOK, Due
<1>13. Effect(t)
  BY <1>2 DEF Effect, Moves
<1>14. /\ loc'[t].index = loc[t].index /\ call'[t].st # "done" /\ mem' = mem
       /\ \A u \in Thread \ {t} : loc'[u] = loc[u] /\ call'[u] = call[u]
       /\ \A u \in Thread \ {t} : root'.announce[u] = root.announce[u] /\ (u \in Toggles' <=> u \in Toggles)
  BY <1>2, <1>3, <1>5, <1>6, <1>7, <1>9
<1> QED
  BY <1>2, <1>3, <1>7, <1>8, <1>10, <1>11, <1>12, <1>13, <1>14, SimOutside

(* A thread returns what the record says. *)
LEMMA SimReturns ==
  ASSUME prog \in SimPrograms, prog' = prog, CallsOK, SimCallInv, NEW t \in Thread, Sim!SimOwn(t) \/ Sim!SimFetch(t)
  PROVE  Effect(t) /\ SimCallInv'
<1>1. /\ SimTypes /\ DOMAIN pc = Thread /\ DOMAIN call = Thread /\ BitsOK(t) /\ ResultOK(t) /\ CallOK(t)
  BY SimFrame
<1>2. PICK from, v : from \in {"own", "fetch"} /\
        /\ Return(t, from, v) /\ (v = Rec(loc[t].old.index).ret[t] \/ call[t].op = "pop") /\ UNCHANGED <<mem, root>>
        /\ loc' = [loc EXCEPT ![t].j = 0, ![t].old = Sim!NoPointer, ![t].toggles = {}]
  <2>1. CASE Sim!SimOwn(t)
    BY <2>1, SimHarness, SimFrame DEF Sim!SimOwn, Sim!SimReturn
  <2>2. CASE Sim!SimFetch(t)
    BY <2>2, SimHarness, SimFrame DEF Sim!SimFetch, Sim!SimReturn
  <2> QED
    BY <2>1, <2>2
<1>3. /\ Go(t, from, "idle") /\ obj' = obj /\ pc[t] = from /\ pc'[t] = "idle" /\ call'[t].st = "idle"
      /\ (\A u \in Thread \ {t} : call'[u] = call[u] /\ pc'[u] = pc[u]) /\ Sp' = Sp /\ Toggles' = Toggles
  BY <1>1, <1>2 DEF Return, Go, Object!Idle, Sp, Toggles
<1>4. call[t].st = "done"
  BY <1>1, <1>2, <1>3 DEF BitsOK
<1>5. call[t].op # "pop" => v = call[t].ret
  <2>1. PICK G \in SUBSET Record : ResultIn(t, G)
    BY <1>1, <1>4 DEF ResultOK
  <2>2. loc[t].old.index \in G
    BY <1>2, <1>3, <2>1 DEF ResultIn
  <2> QED
    BY <1>2, <2>1, <2>2 DEF ResultIn
<1>6. call[t].op = "pop" => <<prog, call[t].op>> \in WrongResult
  <2> SUFFICES ASSUME call[t].op = "pop" PROVE <<prog, call[t].op>> \in WrongResult
    OBVIOUS
  <2>1. pc[t] # "idle"
    BY <1>2, <1>3
  <2>2. "pop" \in Ops
    BY <1>1, <2>1 DEF CallOK
  <2>3. prog \in Stacks
    BY <2>2 DEF Ops
  <2>4. prog = "simstack"
    BY <2>3 DEF SimPrograms, Stacks
  <2> QED
    BY <2>4 DEF WrongResult
<1>7. Effect(t)
  <2>1. Returns(t)
    BY <1>2, <1>4, <1>5, <1>6 DEF Returns
  <2> QED
    BY <2>1 DEF Effect
<1>8. PICK m : m = Sim!NoPointer
  OBVIOUS
<1>9. m.seq = -1
  BY <1>8 DEF Sim!NoPointer
<1>10. /\ DOMAIN loc' = Thread /\ DOMAIN loc'[t] = DOMAIN loc[t]
       /\ loc'[t].bit = loc[t].bit /\ loc'[t].index = loc[t].index /\ loc'[t].j = 0
       /\ loc'[t].old = m /\ loc'[t].toggles = {}
       /\ \A u \in Thread \ {t} : loc'[u] = loc[u]
  BY <1>1, <1>2, <1>8 DEF SimTypes
<1>11. from \notin Trying \cup {"read"} /\ "idle" \notin Trying /\ "idle" \notin {"own", "fetch"} /\ "idle" \in SimLabel
       /\ from \notin {"idle", "toggle"}
  BY <1>2 DEF Trying, SimLabel
<1>12. SimTypes'
  <2>1. pc' \in [Thread -> SimLabel]
    BY <1>1, <1>3, <1>11 DEF SimTypes, Go
  <2>2. ASSUME NEW u \in Thread
        PROVE  /\ DOMAIN loc'[u] = {"bit", "index", "j", "old", "toggles"} /\ DOMAIN loc'[u].bit = {"obj"} /\ DOMAIN loc'[u].index = {"obj"}
               /\ loc'[u].bit.obj \in BOOLEAN /\ loc'[u].index.obj \in Pool /\ loc'[u].toggles \subseteq Thread
               /\ loc'[u].old.seq \in Int /\ loc'[u].old.seq <= Sp.seq
               /\ pc'[u] \in Trying \cup {"own", "fetch"} => loc'[u].old.index \in Record
               /\ loc'[u].j \in {0, 1, 2} /\ (pc'[u] \in Trying \cup {"idle", "toggle", "read"} => loc'[u].j # 2)
    <3>1. CASE u = t
      BY <1>1, <1>3, <1>9, <1>10, <1>11, <3>1 DEF SimTypes
    <3>2. CASE u # t
      <4>1. loc'[u] = loc[u] /\ pc'[u] = pc[u]
        BY <1>3, <1>10, <3>2
      <4> QED
        BY <1>1, <4>1 DEF SimTypes
    <3> QED
      BY <3>1, <3>2
  <2>3. /\ DOMAIN mem' = {"obj"} /\ DOMAIN mem'.obj = Record
        /\ \A i \in Record : DOMAIN Rec(i)' = {"applied", "state", "ret"} /\ Rec(i)'.applied \subseteq Thread
                       /\ DOMAIN Rec(i)'.ret = Thread
    BY <1>1, <1>2 DEF SimTypes, Rec
  <2>4. /\ DOMAIN root' = {"sp", "a_toggles", "announce"} /\ DOMAIN root'.sp = {"obj"} /\ DOMAIN root'.a_toggles = {"obj"}
        /\ DOMAIN Sp' = {"seq", "index"} /\ Sp'.seq \in Nat /\ Sp'.index \in Record /\ Toggles' \subseteq Thread
        /\ DOMAIN root'.announce = Thread
    BY <1>1, <1>2, <1>3 DEF SimTypes
  <2> QED
    BY <1>3, <1>10, <2>1, <2>2, <2>3, <2>4 DEF SimTypes
<1>13. BitsOK(t)'
  <2>1. Agrees(t, Toggles) /\ Agrees(t, Rec(Sp.index).applied)
    BY <1>1, <1>3, <1>4, <1>11 DEF BitsOK
  <2>2. Agrees(t, Toggles)' /\ Agrees(t, Rec(Sp.index).applied)'
    BY <1>2, <1>3, <1>10, <2>1 DEF Agrees, Rec
  <2> QED
    BY <1>3, <1>10, <1>11, <2>2 DEF BitsOK
<1>14. TriesOK(t)' /\ ~Due(t)
  BY <1>3, <1>4, <1>11 DEF TriesOK, Due
<1>15. /\ mem' = mem /\ call'[t].st # "done"
       /\ \A u \in Thread \ {t} : root'.announce[u] = root.announce[u] /\ (u \in Toggles' <=> u \in Toggles)
  BY <1>2, <1>3
<1> QED
  BY <1>3, <1>7, <1>10, <1>11, <1>12, <1>13, <1>14, <1>15, SimOutside

-----------------------------------------------------------------------------
(* The swap *)

(* A swap serves every request that the record applied. *)
LEMMA SimInstalls ==
  ASSUME prog \in SimPrograms, prog' = prog, CallsOK, SimCallInv, NEW t \in Thread, Sim!SimSwap(t)
  PROVE  Effect(t) /\ SimCallInv'
<1>1. /\ SimTypes /\ OwnerOK /\ DOMAIN pc = Thread /\ DOMAIN call = Thread /\ Rec(Sp.index).state = obj
      /\ \A u \in Thread : BitsOK(u) /\ BuildOK(u) /\ TriesOK(u) /\ CheckOK(u) /\ ResultOK(u)
                           /\ DOMAIN call[u] = {"st", "op", "arg", "ret"}
      /\ \A u \in Thread : Own(u) \in Record /\ Own(u) # Sp.index
      /\ \A u, w \in Thread : Own(u) = Own(w) => u = w
      /\ Sim!Side(t) = "obj" /\ Sim!MyRecord(t) = Own(t) /\ Sim!Pointer(t) = Sp
      /\ \A u \in Thread : pc[u] \notin {"idle", "toggle"} => call[u].st \in {"asked", "done"}
  BY SimFrame DEF SimCallInv
<1>2. PICK A, N, T : A = Rec(Sp.index) /\ N = Rec(Own(t)) /\ T = loc[t].toggles
  OBVIOUS
<1>3. PICK D : D = {x \in Thread : ~(x \in A.applied <=> x \in T)}
  OBVIOUS
<1>4. PICK k, l, m, p2 : k \in Pool /\ l \in Record /\
        k = loc[t].index.obj /\ l = Own(t) /\ m = (k + 1) % LOCAL_POOL_SIZE /\ p2 = [seq |-> Sp.seq + 1, index |-> l]
  <2>1. loc[t].index.obj \in Pool /\ Own(t) \in Record
    BY <1>1 DEF SimTypes
  <2> QED
    BY <2>1
<1>5. PICK to : to \in {"own", "result"} /\ Go(t, "swap", to)
  <2>1. Go(t, "swap", IF prog = "sim" THEN "own" ELSE "result")
    BY SimHarness DEF Sim!SimSwap, Sim!SimInstall
  <2> QED
    BY <2>1
<1>6. /\ Valid(t) /\ UNCHANGED <<mem, got, runs>> /\ obj' = N.state
      /\ root' = [root EXCEPT !.sp.obj = p2]
  BY <1>1, <1>2, <1>4 DEF Sim!SimSwap, Sim!SimInstall, Valid, Rec, Sp
<1>7. /\ DOMAIN root' = DOMAIN root /\ DOMAIN root'.sp = {"obj"} /\ root'.sp.obj = p2
      /\ root'.a_toggles = root.a_toggles /\ root'.announce = root.announce
  BY <1>1, <1>6 DEF SimTypes
<1>8. Sp' = p2 /\ Toggles' = Toggles /\ Sp'.index = l /\ Sp'.seq = Sp.seq + 1
  BY <1>4, <1>7 DEF Sp, Toggles
<1>9. loc' = [loc EXCEPT ![t].index.obj = m, ![t].old = p2]
  <2>1. loc' = [loc EXCEPT ![t].index[Sim!Side(t)] = (loc[t].index[Sim!Side(t)] + 1) % LOCAL_POOL_SIZE, ![t].old = root'.sp[Sim!Side(t)]]
    BY DEF Sim!SimSwap, Sim!SimInstall
  <2> QED
    BY <1>1, <1>4, <1>7, <2>1
<1>10. /\ DOMAIN loc' = Thread /\ DOMAIN loc'[t] = DOMAIN loc[t] /\ DOMAIN loc'[t].index = {"obj"} /\ loc'[t].index.obj = m
       /\ loc'[t].bit = loc[t].bit /\ loc'[t].j = loc[t].j /\ loc'[t].old = p2 /\ loc'[t].toggles = loc[t].toggles
       /\ \A u \in Thread \ {t} : loc'[u] = loc[u]
  BY <1>1, <1>9 DEF SimTypes
<1>11. /\ pc[t] = "swap" /\ pc'[t] = to /\ (\A u \in Thread \ {t} : pc'[u] = pc[u])
       /\ "swap" \in Trying /\ "swap" \in Building /\ "swap" \in Trying \ {"check"} /\ "swap" \notin {"idle", "toggle"}
       /\ to \notin Trying /\ to \notin Building /\ to \in SimLabel /\ to \notin {"idle", "toggle", "read", "check", "fetch"}
       /\ to \notin {"snapshot", "recheck", "apply", "swap"}
  BY <1>1, <1>5 DEF Go, Trying, Building, SimLabel
<1>12. /\ Built(A, N, T) /\ Agrees(t, T) /\ (\A x \in D : x \in Thread /\ Due(x)) /\ N.applied = T
  <2>1. Built(A, N, T)
    BY <1>1, <1>2, <1>6, <1>11 DEF BuildOK
  <2>2. Agrees(t, T) /\ \A x \in D : x \in Thread /\ Due(x)
    BY <1>1, <1>2, <1>3, <1>6, <1>11 DEF BuildOK
  <2> QED
    BY <2>1, <2>2 DEF Built
<1>13. \A x \in Thread : x \notin D => (Agrees(x, T) <=> Agrees(x, A.applied))
  BY <1>3 DEF Agrees
<1>14. \A x \in D : ~Agrees(x, A.applied) /\ Agrees(x, T) /\ call[x].st = "asked" /\ pc[x] \notin {"idle", "toggle", "own", "result", "fetch"}
  <2> SUFFICES ASSUME NEW x \in D
               PROVE  ~Agrees(x, A.applied) /\ Agrees(x, T) /\ call[x].st = "asked" /\ pc[x] \notin {"idle", "toggle", "own", "result", "fetch"}
    OBVIOUS
  <2>1. x \in Thread /\ call[x].st = "asked" /\ pc[x] \notin {"idle", "toggle"}
    BY <1>12 DEF Due
  <2>2. ~Agrees(x, A.applied) /\ pc[x] \notin {"own", "result", "fetch"}
    BY <1>1, <1>2, <2>1 DEF BitsOK
  <2>3. loc[x].bit.obj \in BOOLEAN
    BY <1>1, <2>1 DEF SimTypes
  <2> QED
    BY <1>3, <2>1, <2>2, <2>3 DEF Agrees
<1>15. t \in D
  <2>1. call[t].st = "asked"
    BY <1>1, <1>6, <1>11 DEF BitsOK
  <2>2. ~Agrees(t, A.applied)
    BY <1>1, <1>2, <1>11, <2>1 DEF BitsOK
  <2> QED
    BY <1>12, <1>13, <2>2
<1>16. call' = [x \in Thread |-> IF x \in D THEN [call[x] EXCEPT !.st = "done", !.ret = N.ret[x]] ELSE call[x]]
  <2>1. Sim!Xor(A.applied, N.applied) = D
    <3>1. A.applied \subseteq Thread /\ T \subseteq Thread
      BY <1>1, <1>2 DEF SimTypes
    <3> QED
      BY <1>3, <1>12, <3>1 DEF Sim!Xor
  <2>2. call' = [x \in Thread |-> IF x \in Sim!Xor(A.applied, N.applied) THEN [call[x] EXCEPT !.st = "done", !.ret = N.ret[x]] ELSE call[x]]
    BY <1>1, <1>2 DEF Sim!SimSwap, Sim!Thread, Thread, Rec, Sp
  <2> QED
    BY <2>1, <2>2
<1>17. /\ \A x \in D : /\ call'[x] = [call[x] EXCEPT !.st = "done", !.ret = N.ret[x]]
                       /\ call'[x].st = "done" /\ call'[x].ret = N.ret[x] /\ call'[x].op = call[x].op /\ call'[x].arg = call[x].arg
       /\ \A x \in Thread : x \notin D => call'[x] = call[x]
       /\ D \subseteq Thread
  <2>1. D \subseteq Thread
    BY <1>3
  <2>2. ASSUME NEW x \in D
        PROVE  /\ call'[x] = [call[x] EXCEPT !.st = "done", !.ret = N.ret[x]]
               /\ call'[x].st = "done" /\ call'[x].ret = N.ret[x] /\ call'[x].op = call[x].op /\ call'[x].arg = call[x].arg
    <3>1. x \in Thread /\ DOMAIN call[x] = {"st", "op", "arg", "ret"}
      BY <1>1, <2>1
    <3>2. PICK c, r : c = call[x] /\ r = N.ret[x]
      OBVIOUS
    <3>3. call'[x] = [c EXCEPT !.st = "done", !.ret = r]
      BY <1>16, <3>1, <3>2
    <3>4. [c EXCEPT !.st = "done", !.ret = r].st = "done" /\ [c EXCEPT !.st = "done", !.ret = r].ret = r
          /\ [c EXCEPT !.st = "done", !.ret = r].op = c.op /\ [c EXCEPT !.st = "done", !.ret = r].arg = c.arg
      BY <3>1, <3>2
    <3> QED
      BY <3>2, <3>3, <3>4
  <2> QED
    BY <1>16, <2>1, <2>2
<1>18. Effect(t)
  <2>1. PICK s \in Seq(Thread) :
          /\ \A i, j \in 1 .. Len(s) : s[i] = s[j] => i = j
          /\ \A x \in Thread : (\E i \in 1 .. Len(s) : s[i] = x) <=> ~(x \in A.applied <=> x \in T)
          /\ \E u : /\ u[0] = A.state
                    /\ \A i \in 1 .. Len(s) : LET r == Object!Serial(u[i - 1], call[s[i]].op, call[s[i]].arg)
                                              IN  u[i] = r[1] /\ N.ret[s[i]] = r[2]
                    /\ N.state = u[Len(s)]
    BY <1>12 DEF Built
  <2>2. PICK u : /\ u[0] = A.state
                 /\ \A i \in 1 .. Len(s) : LET r == Object!Serial(u[i - 1], call[s[i]].op, call[s[i]].arg)
                                           IN  u[i] = r[1] /\ N.ret[s[i]] = r[2]
                 /\ N.state = u[Len(s)]
    BY <2>1
  <2>3. \A i \in 1 .. Len(s) : s[i] \in Thread /\ s[i] \in D
    <3>1. \A i \in 1 .. Len(s) : s[i] \in Thread
      OBVIOUS
    <3> QED
      BY <1>3, <2>1, <3>1
  <2>4. \A x \in Thread : (\A i \in 1 .. Len(s) : s[i] # x) => call'[x] = call[x]
    BY <1>3, <1>17, <2>1
  <2>5. ASSUME NEW i \in 1 .. Len(s)
        PROVE  LET r == Object!Serial(u[i - 1], call[s[i]].op, call[s[i]].arg)
               IN  /\ u[i] = r[1]
                   /\ call'[s[i]] = [call[s[i]] EXCEPT !.st = "done", !.ret = r[2]]
    <3>1. s[i] \in D
      BY <2>3
    <3>2. PICK r : r = Object!Serial(u[i - 1], call[s[i]].op, call[s[i]].arg)
      OBVIOUS
    <3>3. u[i] = r[1] /\ N.ret[s[i]] = r[2]
      BY <2>2, <3>2
    <3>4. call'[s[i]] = [call[s[i]] EXCEPT !.st = "done", !.ret = r[2]]
      BY <1>17, <3>1, <3>3
    <3> QED
      BY <3>2, <3>3, <3>4
  <2>6. call' = [x \in Thread |-> call'[x]]
    BY <1>16
  <2>7. u[0] = obj /\ obj' = u[Len(s)]
    BY <1>1, <1>2, <1>6, <2>2
  <2>8. Batch(s, u)
    BY <2>4, <2>5, <2>6, <2>7 DEF Batch
  <2>9. \A i \in 1 .. Len(s) : call[s[i]].st = "asked"
    BY <1>14, <2>3
  <2>10. to # "idle" /\ "swap" # "idle"
    BY <1>11
  <2>11. ServesAll(t, s)
    BY <1>5, <1>6, <2>1, <2>8, <2>9, <2>10 DEF ServesAll
  <2> QED
    BY <2>11 DEF Effect

<1>19. (\A u \in Thread \ {t} : ~Valid(u)') /\ Valid(t)'
  <2>1. \A u \in Thread : loc[u].old.seq \in Int /\ loc[u].old.seq <= Sp.seq /\ Sp.seq \in Nat
    BY <1>1 DEF SimTypes
  <2>2. ASSUME NEW u \in Thread \ {t}, Valid(u)' PROVE FALSE
    <3>1. loc[u].old = p2
      BY <1>8, <1>10, <2>2 DEF Valid
    <3>2. loc[u].old.seq = Sp.seq + 1
      BY <1>4, <3>1
    <3> QED
      BY <2>1, <3>2
  <2>3. Valid(t)'
    BY <1>8, <1>10 DEF Valid
  <2> QED
    BY <2>2, <2>3
<1>20. m \in Pool /\ m # k /\ (m + 1) % LOCAL_POOL_SIZE = (k + 2) % LOCAL_POOL_SIZE
       /\ Own(t)' # l /\ Own(t)' \in Record /\ (\A u \in Thread \ {t} : Own(u)' = Own(u) /\ Own(u) # l)
  <2>1. m \in Pool /\ m # k /\ (m + 1) % LOCAL_POOL_SIZE = (k + 2) % LOCAL_POOL_SIZE /\ k \in Pool
    BY <1>4, PoolRing
  <2>2. Own(t)' = t * LOCAL_POOL_SIZE + m /\ l = t * LOCAL_POOL_SIZE + k
    BY <1>4, <1>10 DEF Own
  <2>3. Own(t)' # l /\ Own(t)' \in Record
    BY <2>1, <2>2, PoolsApart
  <2>4. \A u \in Thread \ {t} : Own(u)' = Own(u) /\ Own(u) # l
    BY <1>1, <1>4, <1>10 DEF Own
  <2> QED
    BY <2>1, <2>3, <2>4
<1>21. /\ \A i : Rec(i)' = Rec(i)
       /\ Rec(Sp.index)' = N /\ Rec(l) = N
       /\ \A u \in Thread : \A S : Agrees(u, S)' <=> Agrees(u, S)
       /\ \A u \in Thread : Agrees(u, Toggles)' <=> Agrees(u, Toggles)
       /\ \A u \in Thread : Agrees(u, Rec(Sp.index).applied)' <=> Agrees(u, T)
  <2>1. \A u \in Thread : loc'[u].bit = loc[u].bit
    BY <1>10
  <2>2. \A i : Rec(i)' = Rec(i)
    BY <1>6 DEF Rec
  <2>3. Rec(l) = N
    BY <1>2, <1>4
  <2>4. Rec(Sp.index)' = N
    BY <1>8, <1>6, <2>3 DEF Rec
  <2>5. \A u \in Thread : Agrees(u, Rec(Sp.index).applied)' <=> Agrees(u, T)
    BY <1>12, <2>1, <2>4 DEF Agrees
  <2> QED
    BY <1>8, <2>1, <2>2, <2>3, <2>4, <2>5 DEF Agrees
<1>22. SimTypes'
  <2>1. pc' \in [Thread -> SimLabel]
    BY <1>1, <1>5, <1>11 DEF SimTypes, Go
  <2>2. ASSUME NEW u \in Thread
        PROVE  /\ DOMAIN loc'[u] = {"bit", "index", "j", "old", "toggles"} /\ DOMAIN loc'[u].bit = {"obj"} /\ DOMAIN loc'[u].index = {"obj"}
               /\ loc'[u].bit.obj \in BOOLEAN /\ loc'[u].index.obj \in Pool /\ loc'[u].toggles \subseteq Thread
               /\ loc'[u].old.seq \in Int /\ loc'[u].old.seq <= Sp'.seq
               /\ pc'[u] \in Trying \cup {"own", "fetch"} => loc'[u].old.index \in Record
               /\ loc'[u].j \in {0, 1, 2} /\ (pc'[u] \in Trying \cup {"idle", "toggle", "read"} => loc'[u].j # 2)
    <3>1. CASE u = t
      <4>1. p2.seq = Sp.seq + 1 /\ p2.index = l /\ Sp.seq \in Nat
        BY <1>1, <1>4 DEF SimTypes
      <4> QED
        BY <1>1, <1>4, <1>8, <1>10, <1>11, <1>20, <3>1, <4>1 DEF SimTypes
    <3>2. CASE u # t
      <4>1. loc'[u] = loc[u] /\ pc'[u] = pc[u] /\ Sp'.seq = Sp.seq + 1
        BY <1>8, <1>10, <1>11, <3>2
      <4>2. loc[u].old.seq \in Int /\ loc[u].old.seq <= Sp'.seq
        BY <1>1, <4>1 DEF SimTypes
      <4> QED
        BY <1>1, <4>1, <4>2 DEF SimTypes
    <3> QED
      BY <3>1, <3>2
  <2>3. /\ DOMAIN mem' = {"obj"} /\ DOMAIN mem'.obj = Record
        /\ \A i \in Record : DOMAIN Rec(i)' = {"applied", "state", "ret"} /\ Rec(i)'.applied \subseteq Thread
                       /\ DOMAIN Rec(i)'.ret = Thread
    BY <1>1, <1>6, <1>21 DEF SimTypes
  <2>4. /\ DOMAIN root' = {"sp", "a_toggles", "announce"} /\ DOMAIN root'.sp = {"obj"} /\ DOMAIN root'.a_toggles = {"obj"}
        /\ DOMAIN root'.announce = Thread /\ Toggles' \subseteq Thread
    BY <1>1, <1>7, <1>8 DEF SimTypes
  <2>5. DOMAIN Sp' = {"seq", "index"} /\ Sp'.seq \in Nat /\ Sp'.index \in Record
    BY <1>1, <1>4, <1>8 DEF SimTypes
  <2> QED
    BY <1>10, <2>1, <2>2, <2>3, <2>4, <2>5 DEF SimTypes
<1>23. OwnerOK' /\ (Rec(Sp.index).state = obj)'
  <2>1. ASSUME NEW o \in Thread, NEW j \in Pool, l = o * LOCAL_POOL_SIZE + j PROVE After1(o, j)'
    <3>1. o = t /\ j = k
      BY <1>4, <2>1, PoolsApart DEF Own
    <3> QED
      BY <1>4, <1>10, <3>1 DEF After1
  <2> QED
    BY <1>6, <1>8, <1>21, <2>1 DEF OwnerOK
<1>24. ASSUME NEW u \in Thread PROVE BitsOK(u)'
  <2>1. BitsOK(u)
    BY <1>1
  <2>2. u \in D => /\ call'[u].st = "done" /\ call'[u].op = call[u].op /\ call'[u].arg = call[u].arg
                   /\ pc[u] \notin {"idle", "toggle"} /\ Agrees(u, T)
    BY <1>14, <1>17
  <2>3. u \notin D => call'[u] = call[u] /\ (Agrees(u, T) <=> Agrees(u, A.applied)) /\ u # t
    BY <1>13, <1>15, <1>17
  <2>4. Agrees(u, Rec(Sp.index).applied) <=> Agrees(u, A.applied)
    BY <1>2
  <2>5. CASE u = t
    BY <1>7, <1>10, <1>11, <1>15, <1>21, <2>1, <2>2, <2>5 DEF BitsOK
  <2>6. CASE u # t
    <3>1. loc'[u] = loc[u] /\ pc'[u] = pc[u] /\ ~Valid(u)' /\ root'.announce[u] = root.announce[u]
      BY <1>7, <1>10, <1>11, <1>19, <2>6
    <3>2. CASE u \in D
      BY <1>21, <2>1, <2>2, <3>1, <3>2 DEF BitsOK
    <3>3. CASE u \notin D
      BY <1>21, <2>1, <2>3, <2>4, <3>1, <3>3 DEF BitsOK
    <3> QED
      BY <3>2, <3>3
  <2> QED
    BY <2>5, <2>6
<1>25. ASSUME NEW u \in Thread PROVE BuildOK(u)'
  <2>1. CASE u = t
    BY <1>11, <2>1 DEF BuildOK
  <2>2. CASE u # t
    <3>1. loc'[u] = loc[u] /\ pc'[u] = pc[u] /\ ~Valid(u)' /\ BuildOK(u)
      BY <1>1, <1>10, <1>11, <1>19, <2>2
    <3>2. Agrees(u, loc[u].toggles)' <=> Agrees(u, loc[u].toggles)
      BY <3>1 DEF Agrees
    <3> QED
      BY <3>1, <3>2 DEF BuildOK
  <2> QED
    BY <2>1, <2>2
<1>26. \A u \in Thread : Due(u) /\ pc[u] \in Trying \cup {"read"} /\ (loc[u].j = 1 \/ (pc[u] \in Trying /\ ~Valid(u))) => u \in D
  <2> SUFFICES ASSUME NEW u \in Thread, Due(u), pc[u] \in Trying \cup {"read"}, loc[u].j = 1 \/ (pc[u] \in Trying /\ ~Valid(u))
               PROVE  u \in D
    OBVIOUS
  <2>1. Agrees(u, T)
    BY <1>1, <1>2, <1>6, <1>11 DEF TriesOK
  <2>2. ~Agrees(u, A.applied)
    BY <1>1, <1>2 DEF BitsOK, Due
  <2> QED
    BY <1>13, <2>1, <2>2
<1>27. ASSUME NEW u \in Thread PROVE TriesOK(u)'
  <2>1. \A w \in Thread : ~(pc'[w] \in Building /\ Valid(w)')
    BY <1>11, <1>19
  <2>2. ASSUME loc'[u].j = 1, pc'[u] \in Trying, ~Valid(u)' PROVE call'[u].st = "done"
    <3>1. u # t
      BY <1>11, <2>2
    <3>2. loc[u].j = 1 /\ pc[u] \in Trying /\ pc[u] \notin {"idle", "toggle"}
      BY <1>10, <1>11, <2>2, <3>1 DEF Trying
    <3>3. CASE call[u].st = "asked"
      <4>1. u \in D
        BY <1>26, <3>2, <3>3 DEF Due
      <4> QED
        BY <1>17, <4>1
    <3>4. CASE call[u].st = "done"
      BY <1>14, <1>17, <3>4
    <3> QED
      BY <1>1, <3>2, <3>3, <3>4
  <2> QED
    BY <2>1, <2>2 DEF TriesOK
<1>28. ASSUME NEW u \in Thread PROVE CheckOK(u)'
  <2> SUFFICES ASSUME pc'[u] = "check", call'[u].st = "asked" PROVE CheckOK(u)'
    BY DEF CheckOK
  <2>1. u # t /\ pc[u] = "check" /\ loc'[u] = loc[u]
    BY <1>10, <1>11
  <2>2. u \notin D /\ call[u].st = "asked"
    BY <1>17
  <2>3. pc[u] \in Trying /\ Due(u)
    BY <2>1, <2>2 DEF Trying, Due
  <2>4. Valid(u)
    BY <1>26, <2>2, <2>3
  <2>5. /\ ~Agrees(u, Rec(loc[u].old.index).applied)
        /\ \A o \in Thread, j \in Pool : loc[u].old.index = o * LOCAL_POOL_SIZE + j => After1(o, j)
    BY <1>1, <2>1, <2>2, <2>4 DEF CheckOK
  <2>6. ~Agrees(u, Rec(loc[u].old.index).applied)'
    BY <1>6, <2>1, <2>5 DEF Agrees, Rec
  <2>7. ASSUME NEW o \in Thread, NEW j \in Pool, loc[u].old.index = o * LOCAL_POOL_SIZE + j
        PROVE  After1(o, j)' \/ (After2(o, j)' /\ ~Valid(u)')
    <3>1. CASE o # t
      BY <1>10, <2>5, <2>7, <3>1 DEF After1
    <3>2. CASE o = t
      <4>1. k = (j + 1) % LOCAL_POOL_SIZE
        BY <1>4, <2>5, <2>7, <3>2 DEF After1
      <4>2. m = (j + 2) % LOCAL_POOL_SIZE
        BY <1>4, <4>1, PoolRing
      <4> QED
        BY <1>10, <1>19, <2>1, <3>2, <4>2 DEF After2
    <3> QED
      BY <3>1, <3>2
  <2> QED
    BY <2>1, <2>6, <2>7 DEF CheckOK
<1>29. ASSUME NEW x \in Thread PROVE ResultOK(x)'
  <2> SUFFICES ASSUME call'[x].st = "done" PROVE \E G \in SUBSET Record : ResultIn(x, G)'
    BY DEF ResultOK
  <2>1. CASE x \in D
    <3> DEFINE G == {l}
    <3>1. G \in SUBSET Record /\ Sp'.index \in G
      BY <1>4, <1>8
    <3>2. \A i \in G : Rec(i)'.ret[x] = call'[x].ret /\ Agrees(x, Rec(i).applied)'
      <4>1. N.ret[x] = call'[x].ret /\ Agrees(x, N.applied)
        BY <1>12, <1>14, <1>17, <2>1
      <4>2. Agrees(x, Rec(l).applied)'
        BY <1>10, <1>21, <4>1 DEF Agrees
      <4>3. Rec(l)' = N
        BY <1>21
      <4> QED
        BY <4>1, <4>2, <4>3
    <3>3. \A w \in Thread : Own(w)' \notin G
      BY <1>20
    <3>4. pc'[x] \in {"own", "fetch"} => loc'[x].old.index \in G
      <4>1. CASE x = t
        BY <1>4, <1>10, <4>1
      <4>2. CASE x # t
        BY <1>11, <1>14, <2>1, <4>2
      <4> QED
        BY <4>1, <4>2
    <3> HIDE DEF G
    <3> QED
      BY <3>1, <3>2, <3>3, <3>4 DEF ResultIn
  <2>2. CASE x \notin D
    <3>1. x # t /\ call'[x] = call[x] /\ call[x].st = "done"
      BY <1>15, <1>17, <2>2
    <3>2. PICK F \in SUBSET Record : ResultIn(x, F)
      BY <1>1, <3>1 DEF ResultOK
    <3> DEFINE G == F \cup {l}
    <3>3. G \in SUBSET Record /\ Sp'.index \in G
      BY <1>4, <1>8
    <3>4. A.ret[x] = call[x].ret /\ Agrees(x, A.applied)
      BY <1>2, <3>2 DEF ResultIn
    <3>5. N.ret[x] = A.ret[x]
      <4>1. PICK s \in Seq(Thread) :
              /\ \A y \in Thread : (\E i \in 1 .. Len(s) : s[i] = y) <=> ~(y \in A.applied <=> y \in T)
              /\ \A y \in Thread : (\A i \in 1 .. Len(s) : s[i] # y) => N.ret[y] = A.ret[y]
        BY <1>12 DEF Built
      <4>2. \A i \in 1 .. Len(s) : s[i] # x
        BY <1>3, <2>2, <4>1
      <4> QED
        BY <4>1, <4>2
    <3>6. \A i \in G : Rec(i)'.ret[x] = call'[x].ret /\ Agrees(x, Rec(i).applied)'
      <4> SUFFICES ASSUME NEW i \in G PROVE Rec(i)'.ret[x] = call'[x].ret /\ Agrees(x, Rec(i).applied)'
        OBVIOUS
      <4>1. Rec(i).ret[x] = call[x].ret /\ Agrees(x, Rec(i).applied)
        <5>1. CASE i = l
          <6>1. Agrees(x, N.applied)
            BY <1>12, <1>13, <2>2, <3>4
          <6> QED
            BY <1>21, <3>4, <3>5, <5>1, <6>1
        <5>2. CASE i \in F
          BY <3>2, <5>2 DEF ResultIn
        <5> QED
          BY <5>1, <5>2
      <4>2. Agrees(x, Rec(i).applied)'
        BY <1>10, <1>21, <3>1, <4>1 DEF Agrees
      <4> QED
        BY <1>21, <3>1, <4>1, <4>2
    <3>7. ASSUME NEW w \in Thread \ {x}, Own(w)' \in G
          PROVE  /\ pc'[w] \in Trying => loc'[w].old.index \in G
                 /\ pc'[w] \in Building => Agrees(x, loc[w].toggles)'
      <4>1. CASE w = t
        BY <1>11, <4>1
      <4>2. CASE w # t
        <5>1. Own(w) \in F /\ pc'[w] = pc[w] /\ loc'[w] = loc[w] /\ loc'[x] = loc[x]
          BY <1>10, <1>11, <1>20, <3>1, <3>7, <4>2
        <5>2. /\ pc[w] \in Trying => loc[w].old.index \in F
              /\ pc[w] \in Building => Agrees(x, loc[w].toggles)
          BY <3>2, <3>7, <5>1 DEF ResultIn
        <5> QED
          BY <5>1, <5>2 DEF Agrees
      <4> QED
        BY <4>1, <4>2
    <3>8. Own(x)' \notin G
      BY <1>20, <3>1, <3>2 DEF ResultIn
    <3>9. pc'[x] \in {"own", "fetch"} => loc'[x].old.index \in G
      BY <1>10, <1>11, <3>1, <3>2 DEF ResultIn
    <3> HIDE DEF G
    <3> QED
      BY <3>3, <3>6, <3>7, <3>8, <3>9 DEF ResultIn
  <2> QED
    BY <2>1, <2>2
<1> QED
  BY <1>18, <1>22, <1>23, <1>24, <1>25, <1>27, <1>28, <1>29 DEF SimCallInv

-----------------------------------------------------------------------------
(* All of sim and simstack *)

(* Every step of sim and simstack. *)
LEMMA SimServes ==
  ASSUME prog \in SimPrograms, prog' = prog, CallsOK, SimCallInv, NEW t \in Thread, Sim!PSimStep(t)
  PROVE  Effect(t) /\ SimCallInv'
<1>1. CASE Sim!SimAnnounce(t)
  BY <1>1, SimAnnounces
<1>2. CASE Sim!SimToggle(t)
  BY <1>2, SimToggles
<1>3. CASE Sim!SimRead(t) \/ Sim!SimResult(t)
  BY <1>3, SimReads
<1>4. CASE Sim!SimCheck(t, "result")
  BY <1>4, SimLooks
<1>5. CASE Sim!SimCopy(t)
  BY <1>5, SimCopies
<1>6. CASE Sim!SimSnapshot(t)
  BY <1>6, SimSnapshots
<1>7. CASE Sim!SimRecheck(t, "apply", "result")
  <2>1. Sim!Pointer(t) = Sp /\ UNCHANGED <<mem, root, calls>>
    BY <1>7, SimFrame DEF Sim!SimRecheck, Sim!calls, calls
  <2>2. CASE Sim!Pointer(t) = loc[t].old /\ Sim!Go(t, "recheck", "apply") /\ UNCHANGED loc
    <3>1. Valid(t) /\ Go(t, "recheck", "apply") /\ UNCHANGED <<loc, mem, root, calls>>
      BY <2>1, <2>2, SimHarness DEF Valid
    <3> QED
      BY <3>1, SimLooks
  <2>3. CASE Sim!Pointer(t) # loc[t].old /\ Sim!NextTry(t, "recheck", "result")
    <3>1. ~Valid(t)
      BY <2>1, <2>3 DEF Valid
    <3> QED
      BY <2>1, <2>3, <3>1, SimFails
  <2> QED
    BY <1>7, <2>2, <2>3 DEF Sim!SimRecheck
<1>8. CASE Sim!SimApply(t)
  BY <1>8, SimApplies
<1>9. CASE Sim!SimSwap(t)
  BY <1>9, SimInstalls
<1>10. CASE Sim!SimSwapFails(t, "result")
  <2>1. ~Valid(t) /\ Sim!NextTry(t, "swap", "result") /\ UNCHANGED <<mem, root, calls>>
    BY <1>10, SimFrame DEF Sim!SimSwapFails, Sim!calls, calls, Valid
  <2> QED
    BY <2>1, SimFails
<1>11. CASE Sim!SimOwn(t) \/ Sim!SimFetch(t)
  BY <1>11, SimReturns
<1> QED
  BY <1>1, <1>2, <1>3, <1>4, <1>5, <1>6, <1>7, <1>8, <1>9, <1>10, <1>11 DEF Sim!PSimStep

(* SHARED_OBJECT_INIT of sim.c and simstack.c: nobody has announced, nobody is
   served. *)
LEMMA SimStarts ==
  ASSUME NEW q \in SimPrograms, NEW n, Sim!PSimInit(q, n)
  PROVE  SimCallInv
<1>1. /\ prog = q /\ pc = [t \in Thread |-> "idle"] /\ call = [t \in Thread |-> Object!Idle]
      /\ root = [sp |-> [d \in {"obj"} |-> [seq |-> 0, index |-> N_THREADS * LOCAL_POOL_SIZE]],
                 a_toggles |-> [d \in {"obj"} |-> {}],
                 announce |-> [t \in Thread |-> [op |-> "none", arg |-> Sim!Object!Ok]]]
      /\ loc = [t \in Thread |-> [bit |-> [obj |-> FALSE], index |-> [obj |-> 0], j |-> 0, old |-> Sim!NoPointer, toggles |-> {}]]
      /\ mem = [obj |-> [i \in Record |-> [applied |-> {}, state |-> obj, ret |-> [t \in Thread |-> Sim!Object!Ok]]]]
  BY DEF Sim!PSimInit, Sim!SimSides, Sim!SynchInit, Sim!Thread, Thread, Sim!Object!Idle, Object!Idle,
         Sim!InitRecord, Sim!Index, Record, Sim!Object!Ok, Object!Ok
<1>2. PICK p0 : p0 = Sim!NoPointer
  OBVIOUS
<1>3. p0.seq = -1 /\ p0.seq \in Int
  BY <1>2 DEF Sim!NoPointer
<1>4. N_THREADS \in Nat /\ LOCAL_POOL_SIZE \in Nat /\ LOCAL_POOL_SIZE > 2 /\ 0 \in Pool
      /\ N_THREADS * LOCAL_POOL_SIZE \in Record
  <2>1. N_THREADS \in Nat /\ LOCAL_POOL_SIZE \in Nat /\ LOCAL_POOL_SIZE > 2
    BY PoolMod
  <2>2. N_THREADS * LOCAL_POOL_SIZE \in Nat
    BY <2>1
  <2> QED
    BY <2>1, <2>2 DEF Record, Pool
<1>5. /\ DOMAIN root = {"sp", "a_toggles", "announce"} /\ DOMAIN root.sp = {"obj"} /\ DOMAIN root.a_toggles = {"obj"}
      /\ DOMAIN root.announce = Thread
      /\ Sp = [seq |-> 0, index |-> N_THREADS * LOCAL_POOL_SIZE] /\ Toggles = {}
  BY <1>1 DEF Sp, Toggles
<1>6. ASSUME NEW t \in Thread
      PROVE  /\ pc[t] = "idle" /\ loc[t].bit.obj = FALSE /\ loc[t].index.obj = 0 /\ loc[t].j = 0 /\ loc[t].old = p0
             /\ loc[t].toggles = {} /\ call[t].st = "idle"
             /\ DOMAIN loc[t] = {"bit", "index", "j", "old", "toggles"} /\ DOMAIN loc[t].bit = {"obj"} /\ DOMAIN loc[t].index = {"obj"}
  BY <1>1, <1>2 DEF Object!Idle
<1>7. ASSUME NEW i \in Record
      PROVE  /\ DOMAIN Rec(i) = {"applied", "state", "ret"} /\ Rec(i).applied = {}
             /\ DOMAIN Rec(i).ret = Thread /\ Rec(i).state = obj
  BY <1>1 DEF Rec
<1>8. Sp.index \in Record /\ Sp.index = N_THREADS * LOCAL_POOL_SIZE /\ Sp.seq = 0 /\ DOMAIN Sp = {"seq", "index"}
  BY <1>4, <1>5
<1>9. "idle" \in SimLabel /\ "idle" \notin Trying \cup {"read", "own", "result", "fetch", "toggle"} /\ "idle" \notin Building
  BY DEF SimLabel, Trying, Building
<1>10. SimTypes
  <2>1. pc \in [Thread -> SimLabel] /\ DOMAIN mem = {"obj"} /\ DOMAIN mem.obj = Record /\ DOMAIN loc = Thread
    BY <1>1, <1>9
  <2>2. ASSUME NEW t \in Thread
        PROVE  /\ loc[t].bit.obj \in BOOLEAN /\ loc[t].index.obj \in Pool /\ loc[t].toggles \subseteq Thread
               /\ loc[t].old.seq \in Int /\ loc[t].old.seq <= Sp.seq
               /\ pc[t] \in Trying \cup {"own", "fetch"} => loc[t].old.index \in Record
               /\ loc[t].j \in {0, 1, 2} /\ (pc[t] \in Trying \cup {"idle", "toggle", "read"} => loc[t].j # 2)
    <3>1. loc[t].old.seq \in Int /\ loc[t].old.seq <= Sp.seq
      <4>1. loc[t].old.seq = -1
        BY <1>3, <1>6
      <4> QED
        BY <1>8, <4>1
    <3>2. loc[t].bit.obj \in BOOLEAN
      BY <1>6
    <3>3. loc[t].index.obj \in Pool
      BY <1>4, <1>6
    <3>5. loc[t].toggles \subseteq Thread
      BY <1>6
    <3>6. loc[t].j \in {0, 1, 2} /\ loc[t].j # 2
      <4>1. loc[t].j = 0
        BY <1>6
      <4> QED
        BY <4>1
    <3>4. pc[t] \notin Trying \cup {"own", "fetch"}
      BY <1>6, <1>9
    <3> QED
      BY <3>1, <3>2, <3>3, <3>4, <3>5, <3>6
  <2> QED
    BY <1>5, <1>6, <1>7, <1>8, <2>1, <2>2 DEF SimTypes
<1>11. OwnerOK
  <2>1. \A o \in Thread, k \in Pool : o * LOCAL_POOL_SIZE + k # N_THREADS * LOCAL_POOL_SIZE
    BY PoolsApart
  <2> QED
    BY <1>8, <2>1 DEF OwnerOK
<1>12. ASSUME NEW t \in Thread
       PROVE  BitsOK(t) /\ BuildOK(t) /\ TriesOK(t) /\ CheckOK(t) /\ ResultOK(t)
  <2>1. BitsOK(t)
    BY <1>5, <1>6, <1>7, <1>8, <1>9 DEF BitsOK, Agrees
  <2>2. BuildOK(t) /\ TriesOK(t) /\ CheckOK(t) /\ ResultOK(t)
    BY <1>6, <1>9 DEF BuildOK, TriesOK, CheckOK, ResultOK, Due, Trying
  <2> QED
    BY <2>1, <2>2
<1> QED
  BY <1>7, <1>8, <1>10, <1>11, <1>12 DEF SimCallInv

(* A step that changes nothing. *)
LEMMA SimStutters ==
  ASSUME SimCallInv, UNCHANGED vars
  PROVE  SimCallInv'
<1>1. /\ pc' = pc /\ loc' = loc /\ mem' = mem /\ root' = root /\ call' = call /\ obj' = obj
  BY DEF vars
<1>2. /\ Sp' = Sp /\ Toggles' = Toggles /\ (\A i : Rec(i)' = Rec(i))
      /\ \A t \in Thread : /\ Own(t)' = Own(t) /\ (Valid(t)' <=> Valid(t)) /\ (Due(t)' <=> Due(t))
                           /\ \A S : Agrees(t, S)' <=> Agrees(t, S)
  BY <1>1 DEF Sp, Toggles, Rec, Own, Valid, Due, Agrees
<1>3. SimTypes' /\ OwnerOK' /\ (Rec(Sp.index).state = obj)'
  BY <1>1, <1>2 DEF SimCallInv, SimTypes, OwnerOK, After1, Rec
<1>4. ASSUME NEW t \in Thread PROVE BitsOK(t)' /\ BuildOK(t)' /\ TriesOK(t)' /\ CheckOK(t)' /\ ResultOK(t)'
  <2>1. BitsOK(t) /\ BuildOK(t) /\ TriesOK(t) /\ CheckOK(t) /\ ResultOK(t)
    BY DEF SimCallInv
  <2>2. BitsOK(t)'
    BY <1>1, <2>1 DEF BitsOK, Agrees, Toggles, Rec, Sp, Valid
  <2>3. BuildOK(t)'
    BY <1>1, <2>1 DEF BuildOK, Agrees, Rec, Sp, Valid, Own, Due, Built
  <2>4. TriesOK(t)'
    BY <1>1, <2>1 DEF TriesOK, Agrees, Sp, Valid, Due
  <2>5. CheckOK(t)'
    BY <1>1, <2>1 DEF CheckOK, Agrees, Rec, Sp, Valid, After1, After2
  <2>6. ResultOK(t)'
    BY <1>1, <2>1 DEF ResultOK, ResultIn, Agrees, Rec, Sp, Own
  <2> QED
    BY <2>2, <2>3, <2>4, <2>5, <2>6
<1> QED
  BY <1>3, <1>4 DEF SimCallInv

-----------------------------------------------------------------------------
(* All of them *)

Served == {"lfobject", "lfstack", "locksuobject", "locksstack", "dsmuobject", "dsmstack", "ccuobject", "ccstack",
           "huobject", "hstack", "ccqueue", "locksqueue", "oyamauobject", "sim", "simstack"}

ServedInv ==
  /\ SynchInv /\ CallsOK
  /\ prog \in {"lfobject", "lfstack"} => LockFreeInv
  /\ prog \in {"locksuobject", "locksstack"} => LocksInv
  /\ prog \in DSMPrograms => DSMCallInv
  /\ prog \in CCPrograms => CCCallInv
  /\ prog \in TwoLockPrograms => TwoLockCallInv
  /\ prog = "oyamauobject" => OyamaCallInv
  /\ prog \in SimPrograms => SimCallInv

(* At the start of every program nobody has asked yet. *)
NobodyAsked(name) ==
  /\ prog = name /\ pc = [t \in Thread |-> "idle"] /\ call = [t \in Thread |-> Object!Idle]
  /\ got = [t \in Thread |-> Object!Ok] /\ (name # "simqueue" => runs = Load[name])
  /\ obj = IF name \in Stacks \cup Queues THEN <<>> ELSE Object!Count(0)

(* Every program starts with no call. *)
LEMMA HarnessStarts ==
  ASSUME NEW name, SynchProgram(name)
  PROVE  NobodyAsked(name)
<1>1. CASE name = "ccuobject" /\ CC!CCInit(Load[name])
  BY <1>1 DEF CC!CCInit, CC!CCNodes, CC!SynchInit, CC!Thread, Thread, CC!Object!Ok, Object!Ok, CC!Object!Idle, Object!Idle,
    CC!Object!Count, Object!Count, CC!Stacks, CC!Queues, Stacks, Queues, NobodyAsked
<1>2. CASE name = "ccstack" /\ CCS!CCStackInit(Load[name])
  BY <1>2 DEF CCS!CCStackInit, CCS!CCNodes, CCS!SynchInit, CCS!Thread, Thread, CCS!Object!Ok, Object!Ok, CCS!Object!Idle, Object!Idle,
    CCS!Object!Count, Object!Count, CCS!Stacks, CCS!Queues, Stacks, Queues, NobodyAsked
<1>3. CASE name \in {"dsmuobject", "dsmstack"} /\ DSM!DSMInit(name, Load[name])
  BY <1>3 DEF DSM!DSMInit, DSM!SynchInit, DSM!Thread, Thread, DSM!Object!Ok, Object!Ok, DSM!Object!Idle, Object!Idle,
    DSM!Object!Count, Object!Count, DSM!Stacks, DSM!Queues, Stacks, Queues, NobodyAsked
<1>4. CASE name \in {"huobject", "hstack"} /\ H!HSynchInit(name, Load[name])
  BY <1>4 DEF H!HSynchInit, H!CCNodes, H!SynchInit, H!Thread, Thread, H!Object!Ok, Object!Ok, H!Object!Idle, Object!Idle,
    H!Object!Count, Object!Count, H!Stacks, H!Queues, Stacks, Queues, NobodyAsked
<1>5. CASE name = "oyamauobject" /\ Oy!OyamaInit(Load[name])
  BY <1>5 DEF Oy!OyamaInit, Oy!SynchInit, Oy!Thread, Thread, Oy!Object!Ok, Object!Ok, Oy!Object!Idle, Object!Idle,
    Oy!Object!Count, Object!Count, Oy!Stacks, Oy!Queues, Stacks, Queues, NobodyAsked
<1>6. CASE name \in {"locksuobject", "locksstack"} /\ Clh!LocksInit(name, Load[name])
  BY <1>6 DEF Clh!LocksInit, Clh!SynchInit, Clh!Thread, Thread, Clh!Object!Ok, Object!Ok, Clh!Object!Idle, Object!Idle,
    Clh!Object!Count, Object!Count, Clh!Stacks, Clh!Queues, Stacks, Queues, NobodyAsked
<1>7. CASE name \in {"lfobject", "lfstack"} /\ Lf!LockFreeInit(name, Load[name])
  BY <1>7 DEF Lf!LockFreeInit, Lf!SynchInit, Lf!Thread, Thread, Lf!Object!Ok, Object!Ok, Lf!Object!Idle, Object!Idle,
    Lf!Object!Count, Object!Count, Lf!Stacks, Lf!Queues, Stacks, Queues, NobodyAsked
<1>8. CASE name \in {"sim", "simstack"} /\ Sim!PSimInit(name, Load[name])
  BY <1>8 DEF Sim!PSimInit, Sim!SimSides, Sim!SynchInit, Sim!Thread, Thread, Sim!Object!Ok, Object!Ok, Sim!Object!Idle, Object!Idle,
    Sim!Object!Count, Object!Count, Sim!Stacks, Sim!Queues, Stacks, Queues, NobodyAsked
<1>9. CASE name = "simqueue" /\ \E n \in SimQueueLoads : Sq!SimQueueInit(n)
  BY <1>9 DEF Sq!SimQueueInit, Sq!SimSides, Sq!SynchInit, Sq!Thread, Thread, Sq!Object!Ok, Object!Ok, Sq!Object!Idle, Object!Idle,
    Sq!Object!Count, Object!Count, Sq!Stacks, Sq!Queues, Stacks, Queues, NobodyAsked
<1>10. CASE name \in {"ccqueue", "locksqueue"} /\ Tlq!TwoLockInit(name, Load[name])
  BY <1>10 DEF Tlq!TwoLockInit, Tlq!SynchInit, Tlq!Thread, Thread, Tlq!Object!Ok, Object!Ok, Tlq!Object!Idle, Object!Idle,
    Tlq!Object!Count, Object!Count, Tlq!Stacks, Tlq!Queues, Stacks, Queues, NobodyAsked
<1> QED
  BY <1>1, <1>2, <1>3, <1>4, <1>5, <1>6, <1>7, <1>8, <1>9, <1>10 DEF SynchProgram

(* Calls that nobody has made are in order. *)
LEMMA CallsStart ==
  ASSUME NEW name \in Programs, name # "simqueue", NobodyAsked(name)
  PROVE  CallsOK
<1> USE DEF NobodyAsked
<1>1. Load[name] \in [Thread -> Nat]
  BY SynchProgramsAssumption
<1>2. \A t \in Thread : CallOK(t)
  <2> SUFFICES ASSUME NEW t \in Thread PROVE CallOK(t)
    OBVIOUS
  <2>1. runs[t] \in Nat /\ runs[t] = Load[prog][t]
    BY <1>1
  <2> QED
    BY <2>1 DEF CallOK, Object!Idle
<1>3. prog \in Stacks \cup Queues => obj \in Seq(Args)
  OBVIOUS
<1> QED
  BY <1>1, <1>2, <1>3 DEF CallsOK

(* lfobject and lfstack start at the call. *)
LEMMA LockFreeStarts ==
  ASSUME NEW q, NEW n, Lf!LockFreeInit(q, n)
  PROVE  LockFreeInv
BY DEF Lf!LockFreeInit, Lf!SynchInit, Lf!Thread, Thread, LockFreeInv

(* locksuobject and locksstack start at the call. *)
LEMMA LocksServeFromTheStart ==
  ASSUME NEW q, NEW n, Clh!LocksInit(q, n)
  PROVE  LocksInv
BY DEF Clh!LocksInit, Clh!SynchInit, Clh!Thread, Thread, LocksInv, LocksLabel

(* ccqueue and locksqueue start with the list the harness filled. *)
LEMMA TwoLockCallsStart ==
  ASSUME NEW q \in Programs, q \in TwoLockPrograms, Tlq!TwoLockInit(q, Load[q])
  PROVE  TwoLockCallInv
<1>1. /\ prog = q /\ pc = [t \in Thread |-> "idle"] /\ obj = <<>> /\ runs = Load[q]
      /\ DOMAIN loc = Thread /\ root.first = Tlq!Guard /\ root.last = Tlq!Guard
      /\ mem = [a \in Tlq!ListNode(Load[q]) |-> Tlq!None]
  BY DEF Tlq!TwoLockInit, Tlq!SynchInit, Tlq!Thread, Thread, TwoLockPrograms, Tlq!Queues, Tlq!Stacks
<1>2. Tlq!ListNode(Load[q]) = {Tlq!Guard} \cup Args
  BY <1>1 DEF Tlq!ListNode, Args, Tlq!Thread, Thread
<1>3. ListOK
  BY <1>1, <1>2 DEF ListOK, End
<1>4. FreshOK
  <2> SUFFICES ASSUME NEW t \in Thread, NEW k \in 1 .. Load[prog][t]
               PROVE  mem[<<"arg", t, k>>] = Tlq!None /\ <<"arg", t, k>> # root.first
    BY <1>1 DEF FreshOK
  <2>1. <<"arg", t, k>> \in Args
    BY DEF Args
  <2> QED
    BY <1>1, <1>2, <2>1 DEF Tlq!Guard
<1>5. \A t \in Thread : QueueCallOK(t)
  BY <1>1 DEF QueueCallOK
<1> QED
  BY <1>1, <1>3, <1>4, <1>5 DEF TwoLockCallInv

(* oyamauobject starts with an empty list. *)
LEMMA OyamaCallsStart ==
  ASSUME NEW n, Oy!OyamaInit(n)
  PROVE  OyamaCallInv
<1>1. /\ pc = [t \in Thread |-> "idle"] /\ loc = [t \in Thread |-> [p |-> Null, next |-> Null]]
      /\ mem = [t \in Thread |-> [next |-> Null, arg_ret |-> <<"garbage">>, pid |-> t, completed |-> FALSE]]
      /\ root = [lock |-> "UNLOCKED", tail |-> Null]
  BY DEF Oy!OyamaInit, Oy!SynchInit, Oy!Thread, Thread, Oy!Null, Null
<1>2. OyamaTypes
  BY <1>1 DEF OyamaTypes
<1>3. \A t \in Thread : ~Listed(t) /\ FrontOf(t) = Null /\ OyamaRequest(t) /\ OyamaServing(t)
  BY <1>1 DEF Listed, FrontOf, OyamaRequest, OyamaServing
<1>4. \A t \in Thread : ~Front(t)
  BY <1>1, <1>3, SynchAssumption DEF Front, Thread, Null
<1>5. OyamaLists
  <2>1. \E rank \in [Thread -> Nat] : \A t, u \in Thread : Listed(t) /\ Listed(u) /\ mem[t].next = u => rank[t] < rank[u]
    <3>1. [t \in Thread |-> 0] \in [Thread -> Nat]
      OBVIOUS
    <3> QED
      BY <1>3, <3>1
  <2> QED
    BY <1>1, <1>3, <1>4, <2>1 DEF OyamaLists
<1> QED
  BY <1>2, <1>3, <1>5 DEF OyamaCallInv

(* The invariants of all these programs hold at the start. *)
LEMMA ServedStarts == ProgramsInit /\ prog \in Served => ServedInv /\ NobodyAsked(prog)
<1> SUFFICES ASSUME ProgramsInit, prog \in Served PROVE ServedInv /\ NobodyAsked(prog)
  OBVIOUS
<1>1. PICK name \in Programs : SynchProgram(name) \/ (name \in Lists /\ ListInit(name))
  BY DEF ProgramsInit
<1>2. SynchProgram(name)
  BY <1>1 DEF ListInit, SynchInit, Lists, Served
<1>3. NobodyAsked(name) /\ prog = name /\ pc = [t \in Thread |-> "idle"]
  BY <1>2, HarnessStarts DEF NobodyAsked
<1>4. SynchInv /\ CallsOK
  BY <1>3, SynchStarts, CallsStart DEF Served
<1>5. prog \in {"lfobject", "lfstack"} => LockFreeInv
  BY <1>2, <1>3, LockFreeStarts DEF SynchProgram
<1>6. prog \in {"locksuobject", "locksstack"} => LocksInv
  BY <1>2, <1>3, LocksServeFromTheStart DEF SynchProgram
<1>7. DSMCallInv /\ CCCallInv
  BY <1>3 DEF DSMCallInv, DSMRequest, DSMServing, CCCallInv, CCRequest, CCServing
<1>8. prog \in TwoLockPrograms => TwoLockCallInv
  BY <1>2, <1>3, TwoLockCallsStart DEF SynchProgram, TwoLockPrograms
<1>9. prog = "oyamauobject" => OyamaCallInv
  BY <1>2, <1>3, OyamaCallsStart DEF SynchProgram
<1>10. prog \in SimPrograms => SimCallInv
  BY <1>2, <1>3, SimStarts DEF SynchProgram, SimPrograms
<1> QED
  BY <1>3, <1>4, <1>5, <1>6, <1>7, <1>8, <1>9, <1>10 DEF ServedInv

(* A step that changes nothing keeps them. *)
LEMMA ServedStutters ==
  ASSUME ServedInv, UNCHANGED vars
  PROVE  ServedInv'
<1>1. /\ prog' = prog /\ pc' = pc /\ loc' = loc /\ mem' = mem /\ root' = root /\ call' = call /\ got' = got
      /\ runs' = runs /\ obj' = obj
  BY DEF vars
<1>2. SynchInv'
  BY SynchStutters DEF ServedInv
<1>3. CallsOK'
  <2>1. Ops' = Ops /\ Args' = Args
    BY <1>1 DEF Ops, Args
  <2>2. \A t \in Thread : CallOK(t) => CallOK(t)'
    BY <1>1, <2>1 DEF CallOK
  <2> QED
    BY <1>1, <2>1, <2>2 DEF CallsOK, ServedInv
<1>4. LockFreeInv => LockFreeInv'
  BY <1>1 DEF LockFreeInv
<1>5. LocksInv => LocksInv'
  BY <1>1 DEF LocksInv
<1>6. DSMCallInv => DSMCallInv'
  BY <1>1 DEF DSMCallInv, DSMRequest, DSMServing, Mine, Completed
<1>7. CCCallInv => CCCallInv'
  BY <1>1 DEF CCCallInv, CCRequest, CCServing, cur, Completed
<1>8. TwoLockCallInv => TwoLockCallInv'
  <2>1. Args' = Args /\ End' = End
    BY <1>1 DEF Args, End
  <2>2. \A t, k : Fresh(t, k)' <=> Fresh(t, k)
    BY <1>1 DEF Fresh
  <2>3. (ListOK => ListOK') /\ (FreshOK => FreshOK') /\ (\A t \in Thread : QueueCallOK(t) => QueueCallOK(t)')
    BY <1>1, <2>1, <2>2 DEF ListOK, FreshOK, QueueCallOK
  <2> QED
    BY <1>1, <2>3 DEF TwoLockCallInv
<1>9. OyamaCallInv => OyamaCallInv'
  <2>1. \A t \in Thread : /\ Listed(t)' <=> Listed(t)
                          /\ FrontOf(t)' = FrontOf(t)
                          /\ OyamaRequest(t) => OyamaRequest(t)'
                          /\ OyamaServing(t) => OyamaServing(t)'
    BY <1>1 DEF Listed, FrontOf, OyamaRequest, OyamaServing
  <2>2. \A t \in Thread : Front(t)' <=> Front(t)
    BY <1>1, <2>1 DEF Front
  <2>3. OyamaTypes => OyamaTypes'
    BY <1>1 DEF OyamaTypes
  <2>4. OyamaLists => OyamaLists'
    <3> SUFFICES ASSUME OyamaLists PROVE OyamaLists'
      OBVIOUS
    <3>1. /\ root'.tail \in Thread \cup {Null}
          /\ \A c \in Thread : FrontOf(c)' \in Thread \cup {Null} /\ (FrontOf(c)' # Null => FrontOf(c)' # root'.tail)
      BY <1>1, <2>1 DEF OyamaLists
    <3> QED
      BY <1>1, <2>1, <2>2, <3>1, ListsStay
  <2> QED
    BY <2>1, <2>3, <2>4 DEF OyamaCallInv
<1>10. SimCallInv => SimCallInv'
  BY SimStutters
<1> QED
  BY <1>1, <1>2, <1>3, <1>4, <1>5, <1>6, <1>7, <1>8, <1>9, <1>10 DEF ServedInv

-----------------------------------------------------------------------------
(* The theorems *)

(* A step of a program *)
LEMMA ServedStep ==
  ASSUME CounterBelow, prog \in Served, ServedInv, NEW t \in Thread, SynchStep(t), prog' = prog, SynchInv'
  PROVE  Effect(t) /\ ServedInv'
<1>1. CallsOK
  BY DEF ServedInv
<1>2. SUFFICES Effect(t) /\ (CallsOK' => ServedInv')
  BY <1>1, EffectKeepsCalls
<1>3. CASE prog \in {"lfobject", "lfstack"}
  <2>1. Lf!LockFreeStep(t) /\ LockFreeInv
    BY <1>3 DEF SynchStep, ServedInv
  <2>2. Effect(t) /\ LockFreeInv'
    BY <1>1, <1>3, <2>1, LockFreeKeeps
  <2> QED
    BY <1>3, <2>2 DEF ServedInv, DSMPrograms, CCPrograms, HPrograms, TwoLockPrograms, SimPrograms
<1>4. CASE prog \in {"locksuobject", "locksstack"}
  <2>1. Clh!LocksStep(t) /\ LocksInv
    BY <1>4 DEF SynchStep, ServedInv
  <2>2. Effect(t) /\ LocksInv'
    BY <1>1, <1>4, <2>1, LocksServe
  <2> QED
    BY <1>4, <2>2 DEF ServedInv, DSMPrograms, CCPrograms, HPrograms, TwoLockPrograms, SimPrograms
<1>5. CASE prog \in DSMPrograms
  <2>1. DSM!DSMStep(t) /\ DSMInv /\ DSMCallInv
    BY <1>5 DEF SynchStep, ServedInv, SynchInv, DSMPrograms
  <2>2. Effect(t) /\ DSMCallInv'
    BY <1>1, <1>5, <2>1, DSMServes
  <2> QED
    BY <1>5, <2>2 DEF ServedInv, DSMPrograms, CCPrograms, HPrograms, TwoLockPrograms, SimPrograms
<1>6. CASE prog \in CCPrograms
  <2>1. CCInv /\ CCCallInv
    BY <1>6 DEF ServedInv, SynchInv
  <2>2. \/ prog = "ccuobject" /\ CC!CCStep(t)
        \/ prog \in HPrograms /\ H!HSynchStep(t)
        \/ prog = "ccstack" /\ CCS!CCStackStep(t)
    BY <1>6 DEF SynchStep, CCPrograms, HPrograms
  <2>3. Effect(t) /\ CCCallInv'
    BY <1>1, <2>1, <2>2, CCServesAll
  <2> QED
    BY <1>6, <2>3 DEF ServedInv, DSMPrograms, CCPrograms, HPrograms, TwoLockPrograms, SimPrograms
<1>7. CASE prog \in TwoLockPrograms
  <2>1. Tlq!TwoLockStep(t) /\ TwoLockInv /\ TwoLockCallInv
    BY <1>7 DEF SynchStep, ServedInv, SynchInv, TwoLockPrograms
  <2>2. Effect(t) /\ TwoLockCallInv'
    BY <1>1, <1>7, <2>1, TwoLockServes
  <2> QED
    BY <1>7, <2>2 DEF ServedInv, DSMPrograms, CCPrograms, HPrograms, TwoLockPrograms, SimPrograms
<1>8. CASE prog = "oyamauobject"
  <2>1. Oy!OyamaStep(t) /\ OyamaInv /\ OyamaCallInv
    BY <1>8 DEF SynchStep, ServedInv, SynchInv
  <2>2. Effect(t) /\ OyamaCallInv'
    BY <1>1, <1>8, <2>1, OyamaServes
  <2> QED
    BY <1>8, <2>2 DEF ServedInv, DSMPrograms, CCPrograms, HPrograms, TwoLockPrograms, SimPrograms
<1>9. CASE prog \in SimPrograms
  <2>1. Sim!PSimStep(t) /\ SimCallInv
    BY <1>9 DEF SynchStep, ServedInv, SimPrograms
  <2>2. Effect(t) /\ SimCallInv'
    BY <1>1, <1>9, <2>1, SimServes
  <2> QED
    BY <1>9, <2>2 DEF ServedInv, DSMPrograms, CCPrograms, HPrograms, TwoLockPrograms, SimPrograms
<1> QED
  BY <1>3, <1>4, <1>5, <1>6, <1>7, <1>8, <1>9 DEF Served, DSMPrograms, CCPrograms, HPrograms, TwoLockPrograms, SimPrograms

(* A program that is exempt shows the abstract object nothing. *)
LEMMA ExemptStep ==
  ASSUME Exempt, prog' = prog
  PROVE  AtomicStep /\ ResultStep
BY DEF AtomicStep, ResultStep, absVars, Exempt

(* The abstract object starts as every program does. *)
LEMMA AtomicStart ==
  ASSUME NEW name, NobodyAsked(name)
  PROVE  Abstract!AtomicInit
BY DEF NobodyAsked, Abstract!AtomicInit, Abstract!Count, Object!Count, Abstract!Idle, Object!Idle, Abstract!Ok, Object!Ok

(* What is kept of a behaviour: the program is the same all along. *)
Kept == SynchInv /\ prog \in Programs /\ (prog \in Served => ServedInv)

(* A step keeps the invariants and is, seen from outside, a step of the
   abstract object. *)
LEMMA KeptStep ==
  ASSUME CounterBelow, Kept, [ProgramsNext]_allVars
  PROVE  /\ Kept' /\ prog' = prog
         /\ AtomicStep /\ ResultStep
<1>1. CASE prog \in Lists
  <2>1. prog' = prog
    <3>1. CASE ProgramsNext
      BY <3>1 DEF ProgramsNext, Step, ListCall
    <3>2. CASE UNCHANGED allVars
      BY <3>2 DEF allVars, vars
    <3> QED
      BY <3>1, <3>2
  <2>2. prog \notin Served
    BY <1>1 DEF Lists, Served
  <2> QED
    BY <1>1, <2>1, <2>2, SynchKeeps, ExemptStep DEF Kept, Exempt
<1>2. CASE prog \notin Lists
  <2>1. prog' = prog /\ SynchInv' /\ (UNCHANGED vars \/ \E t \in Thread : SynchStep(t))
    BY <1>2, ProgramStep, SynchKeeps DEF Kept
  <2>2. CASE UNCHANGED vars
    <3>1. AtomicStep
      BY <2>2 DEF AtomicStep, absVars, vars, Exempt
    <3>2. ResultStep
      BY <2>2 DEF ResultStep, vars
    <3>3. prog \in Served => ServedInv'
      BY <2>2, ServedStutters DEF Kept
    <3> QED
      BY <2>1, <3>1, <3>2, <3>3 DEF Kept
  <2>3. CASE \E t \in Thread : SynchStep(t)
    <3>1. PICK t \in Thread : SynchStep(t)
      BY <2>3
    <3>2. CASE prog \in Served
      <4>1. Effect(t) /\ ServedInv' /\ CallsOK
        BY <2>1, <3>1, <3>2, ServedStep DEF Kept, ServedInv
      <4>2. AtomicStep /\ ResultStep
        BY <2>1, <4>1, EffectIsAtomic, EffectReturns
      <4> QED
        BY <2>1, <4>1, <4>2 DEF Kept
    <3>3. CASE prog \notin Served
      <4>1. prog = "simqueue"
        BY <3>1, <3>3 DEF SynchStep, Served
      <4> QED
        BY <2>1, <3>3, <4>1, ExemptStep DEF Kept, Exempt
    <3> QED
      BY <3>2, <3>3
  <2> QED
    BY <2>1, <2>2, <2>3
<1> QED
  BY <1>1, <1>2

(* Every program starts with the invariants, as the abstract object. *)
LEMMA KeptStart == ProgramsInit => Kept /\ Abstract!AtomicInit
<1> SUFFICES ASSUME ProgramsInit PROVE Kept /\ Abstract!AtomicInit
  OBVIOUS
<1>1. PICK name \in Programs : SynchProgram(name) \/ (name \in Lists /\ ListInit(name))
  BY DEF ProgramsInit
<1>2. prog = name /\ Abstract!AtomicInit
  <2>1. CASE SynchProgram(name)
    <3>1. NobodyAsked(name)
      BY <2>1, HarnessStarts
    <3> QED
      BY <3>1, AtomicStart DEF NobodyAsked
  <2>2. CASE name \in Lists /\ ListInit(name)
    BY <2>2 DEF ListInit, SynchInit, Exempt, Abstract!AtomicInit, Abstract!Idle, Object!Idle, Abstract!Ok, Object!Ok
  <2> QED
    BY <1>1, <2>1, <2>2
<1> QED
  BY <1>1, <1>2, SynchStarts, ServedStarts DEF Kept

(* The calls of a program are what SynchTypeOK says. *)
LEMMA KeptTypes ==
  ASSUME Kept, prog \in Served \cup Lists
  PROVE  SynchTypeOK
<1>1. CASE prog \in Served
  <2>1. prog \notin Lists /\ CallsOK
    BY <1>1 DEF Served, Lists, Kept, ServedInv
  <2>2. ASSUME NEW t \in Thread
        PROVE  /\ call[t].st \in {"idle", "asked", "done"}
               /\ call[t].st = "idle" <=> pc[t] = "idle"
               /\ runs[t] \in 0 .. Load[prog][t]
    BY <2>1 DEF CallsOK, CallOK
  <2>3. ASSUME prog \in Stacks \cup Queues, NEW i \in DOMAIN obj
        PROVE  \E t \in Thread : obj[i] \in {<<"arg", t, k>> : k \in 1 .. Load[prog][t]}
    <3>1. obj[i] \in Args
      BY <2>1, <2>3 DEF CallsOK
    <3> QED
      BY <3>1 DEF Args
  <2> QED
    BY <2>1, <2>2, <2>3 DEF SynchTypeOK, Kept
<1>2. CASE prog \in Lists
  BY <1>2 DEF SynchTypeOK, Kept, Lists, Stacks, Queues
<1> QED
  BY <1>1, <1>2

(* The objects of synch1.0.1 are atomic, as its README:39-90 says: in lfobject,
   lfstack, locksuobject, locksstack, dsmuobject, ccuobject, huobject, ccqueue,
   locksqueue, oyamauobject, sim and simstack every operation takes effect in
   one step of somebody between its call and its return, once, as the serial
   code has it, for any number of threads, any help bound and any pool of more
   than two records. *)
THEOREM AtomicObjects ==
  ASSUME CounterBelow
  PROVE  ProgramsSpec => AtomicRefinement
<1>1. Kept /\ [ProgramsNext]_allVars => Kept' /\ AtomicStep
  BY CounterBelow, KeptStep
<1> QED
  BY <1>1, KeptStart, PTL DEF ProgramsSpec, AtomicRefinement, Abstract!AtomicSpec, AtomicStep, absVars

(* A call of these programs returns the result of its own operation and no
   other, whichever combiner or helper applied it, in a node or a record that
   is used again and again; the results of WrongResult are excepted. *)
THEOREM ResultsAreDue ==
  ASSUME CounterBelow
  PROVE  ProgramsSpec => ReturnsItsResult
<1>1. Kept /\ [ProgramsNext]_allVars => Kept' /\ ResultStep
  BY CounterBelow, KeptStep
<1> QED
  BY <1>1, KeptStart, PTL DEF ProgramsSpec, ReturnsItsResult, ResultStep

(* Types of the calls of the programs: the state of a call agrees with the
   place of its thread, no thread asks more often than it should, and an object
   holds only values that were asked for. *)
THEOREM CallsCorrect ==
  ASSUME CounterBelow
  PROVE  ProgramsSpec /\ prog \in Served \cup Lists => []SynchTypeOK
<1>1. Kept /\ prog \in Served \cup Lists /\ [ProgramsNext]_allVars => Kept' /\ (prog \in Served \cup Lists)'
  BY CounterBelow, KeptStep DEF Served, Lists
<1>2. Kept /\ prog \in Served \cup Lists => SynchTypeOK
  BY KeptTypes
<1> QED
  BY <1>1, <1>2, KeptStart, PTL DEF ProgramsSpec
=============================================================================
