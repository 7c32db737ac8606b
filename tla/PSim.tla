-------------------------------- MODULE PSim -------------------------------
(***************************************************************************)
(* sim.c and simstack.c: a thread announces its request, flips its bit in  *)
(* a_toggles and tries twice to copy the current record of the object,     *)
(* apply to the copy every request whose bit differs from the bits the     *)
(* record has applied, and swap the copy in. Whoever wins has served the   *)
(* others; after two failures somebody has served this thread. A toggle    *)
(* vector (tvec.h) is the set of the threads whose bit is set. SimQueue    *)
(* runs two such objects, hence the side, "obj" here, in what both share.  *)
(***************************************************************************)
EXTENDS Synch
CONSTANT LOCAL_POOL_SIZE \* records per thread, 16 in the code

\* TVEC_XOR, TVEC_REVERSE_BIT and the order of bitSearchFirst.
Xor(A, B)        == (A \ B) \cup (B \ A)
ReverseBit(A, t) == Xor(A, {t})
FirstBits(A)     == CHOOSE s \in [1 .. Cardinality(A) -> A] : \A i, j \in DOMAIN s : i < j => s[i] < s[j]

NoPointer == [seq |-> -1, index |-> Null]
InitRecord == N_THREADS * LOCAL_POOL_SIZE
Index      == 0 .. InitRecord

Side(t) == IF prog = "simqueue" THEN call[t].op ELSE "obj"
MyRecord(t)  == t * LOCAL_POOL_SIZE + loc[t].index[Side(t)]
Pointer(t)   == root.sp[Side(t)]
OldRecord(t) == mem[Side(t)][loc[t].old.index]

\* The part of the initial state that does not depend on the record.
SimSides(p, n, sides) ==
  /\ SynchInit(p, n)
  /\ root = [sp |-> [d \in sides |-> [seq |-> 0, index |-> InitRecord]],
             a_toggles |-> [d \in sides |-> {}],
             announce |-> [t \in Thread |-> [op |-> "none", arg |-> Object!Ok]]]
PSimInit(p, n) ==
  /\ SimSides(p, n, {"obj"})
  /\ loc = [t \in Thread |-> [bit |-> [obj |-> FALSE], index |-> [obj |-> 0],
                             j |-> 0, old |-> NoPointer, toggles |-> {}]]
  /\ mem = [obj |-> [i \in Index |-> [applied |-> {}, state |-> obj, ret |-> [t \in Thread |-> Object!Ok]]]]

\* mutant: the argument is not announced
AnnounceOp(t) ==
  /\ Call(t, "toggle")
  /\ root' = [root EXCEPT !.announce[t].op = call'[t].op]
  /\ loc' = [loc EXCEPT ![t].bit.obj = ~@]
  /\ UNCHANGED mem

\* announce[pid] = arg; bit is what my bit of a_toggles is about to become.
SimAnnounce(t) ==
  /\ Call(t, "toggle")
  /\ root' = [root EXCEPT !.announce[t] = [op |-> call'[t].op, arg |-> call'[t].arg]]
  /\ loc'  = [loc EXCEPT ![t].bit.obj = ~@]
  /\ UNCHANGED mem

\* Fetch&Add of plus or minus 2^pid.
SimToggle(t) ==
  /\ Go(t, "toggle", "read")
  /\ root' = [root EXCEPT !.a_toggles[Side(t)] = ReverseBit(@, t)]
  /\ UNCHANGED <<loc, mem, calls>>

SimRead(t) ==
  /\ Go(t, "read", "check")
  /\ loc' = [loc EXCEPT ![t].old = Pointer(t)]
  /\ UNCHANGED <<mem, root, calls>>

\* Has the record applied my request already?
SimCheck(t, served) ==
  /\ Go(t, "check", IF (t \in OldRecord(t).applied) = loc[t].bit[Side(t)] THEN served ELSE "copy")
  /\ UNCHANGED <<loc, mem, root, calls>>

SimCopy(t) ==
  /\ Go(t, "copy", "snapshot")
  /\ mem' = [mem EXCEPT ![Side(t)][MyRecord(t)] = OldRecord(t)]
  /\ UNCHANGED <<loc, root, calls>>

SimSnapshot(t) ==
  /\ Go(t, "snapshot", "recheck")
  /\ loc' = [loc EXCEPT ![t].toggles = root.a_toggles[Side(t)]]
  /\ UNCHANGED <<mem, root, calls>>

\* One more try is over; there are two.
NextTry(t, from, served) == /\ Go(t, from, IF loc[t].j = 1 THEN served ELSE "read")
                            /\ loc' = [loc EXCEPT ![t].j = @ + 1]

SimRecheck(t, to, served) ==
  /\ \/ Pointer(t) = loc[t].old /\ Go(t, "recheck", to) /\ UNCHANGED loc
     \/ Pointer(t) # loc[t].old /\ NextTry(t, "recheck", served)
  /\ UNCHANGED <<mem, root, calls>>

\* The swap makes my record the object: all it applied takes effect at once.
SimInstall(t, from, to) ==
  /\ Pointer(t) = loc[t].old
  /\ Go(t, from, to)
  /\ root' = [root EXCEPT !.sp[Side(t)] = [seq |-> @.seq + 1, index |-> MyRecord(t)]]
  /\ loc'  = [loc EXCEPT ![t].index[Side(t)] = (@ + 1) % LOCAL_POOL_SIZE, ![t].old = root'.sp[Side(t)]]
SimSwapFails(t, served) == /\ Pointer(t) # loc[t].old
                           /\ NextTry(t, "swap", served)
                           /\ UNCHANGED <<mem, root, calls>>

SimReturn(t, from, v) ==
  /\ Return(t, from, v)
  /\ loc' = [loc EXCEPT ![t].j = 0, ![t].old = NoPointer, ![t].toggles = {}]
  /\ UNCHANGED <<mem, root>>
\* mutant: the record that was current when the last try began
StaleResult(t) == Go(t, "result", "fetch") /\ UNCHANGED <<loc, mem, root, calls>>

\* The result in the record that is current now.
SimResult(t) == /\ Go(t, "result", "fetch")
                /\ loc' = [loc EXCEPT ![t].old = Pointer(t)]
                /\ UNCHANGED <<mem, root, calls>>

-----------------------------------------------------------------------------
\* The requests in the order they are applied: sim.c starts with its own,
\* simstack.c applies the pushes and then the pops.
Diffs(t) == Xor(mem[Side(t)][MyRecord(t)].applied, loc[t].toggles)
Served(t) ==
  IF prog = "sim" THEN <<t>> \o FirstBits(ReverseBit(Diffs(t), t))
  ELSE LET isPush(x) == root.announce[x].op = "push"
       IN  FirstBits({x \in Diffs(t) : isPush(x)}) \o FirstBits({x \in Diffs(t) : ~isPush(x)})

\* sfunc for each of them, on my record, with the argument announced.
ApplyAll(t) ==
  LET s == Served(t)
      upTo[i \in 0 .. Len(s)] ==
        IF i = 0 THEN mem.obj[MyRecord(t)]
        ELSE LET b == upTo[i - 1]
                 r == Object!Serial(b.state, root.announce[s[i]].op, root.announce[s[i]].arg)
             IN  [b EXCEPT !.state = r[1], !.ret[s[i]] = r[2]]
  IN [upTo[Len(s)] EXCEPT !.applied = loc[t].toggles]

SimApply(t) ==
  /\ Go(t, "apply", "swap")
  /\ mem' = [mem EXCEPT !.obj[MyRecord(t)] = ApplyAll(t)]
  /\ UNCHANGED <<loc, root, calls>>

SimSwap(t) ==
  LET new == mem.obj[MyRecord(t)]
      now == Xor(mem.obj[root.sp.obj.index].applied, new.applied)
  IN  /\ SimInstall(t, "swap", IF prog = "sim" THEN "own" ELSE "result")
      /\ obj'  = new.state
      /\ call' = [x \in Thread |-> IF x \in now THEN [call[x] EXCEPT !.st = "done", !.ret = new.ret[x]]
                                   ELSE call[x]]
      /\ UNCHANGED <<mem, got, runs>>

\* sim.c returns from its own record if it won; simstack.c gives every pop -1.
SimOwn(t)   == SimReturn(t, "own", OldRecord(t).ret[t])
SimFetch(t) == SimReturn(t, "fetch", IF call[t].op = "pop" THEN Object!Empty ELSE OldRecord(t).ret[t])

PSimStep(t) == \/ SimAnnounce(t) \/ SimToggle(t) \/ SimRead(t) \/ SimCheck(t, "result") \/ SimCopy(t)
               \/ SimSnapshot(t) \/ SimRecheck(t, "apply", "result") \/ SimApply(t) \/ SimSwap(t)
               \/ SimSwapFails(t, "result") \/ SimOwn(t) \/ SimResult(t) \/ SimFetch(t)
=============================================================================
