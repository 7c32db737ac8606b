---------------------------- MODULE SynchProofs ----------------------------
(***************************************************************************)
(* Proofs about the programs of synch1.0.1 for any number of threads: the  *)
(* locks that the combining algorithms make out of their lists, and the    *)
(* CLH lock, let one thread in at a time.  A lock of this kind is a right  *)
(* that is handed on: a node that is neither locked nor completed gives it *)
(* to the thread that waits on the node, and at most one node does so.     *)
(***************************************************************************)
EXTENDS SynchPrograms, SequenceTheorems, TLAPS

Inside == {t \in Thread : Critical(t)}

-----------------------------------------------------------------------------
(* oyamauobject: a lock bit *)

OyamaLabel == {"idle", "insert", "try", "sweep", "help", "complete", "unlock", "wait", "return"}
OyamaInv ==
  /\ pc \in [Thread -> OyamaLabel]
  /\ DOMAIN root = {"lock", "tail"}
  /\ \A t \in Inside : root.lock = "LOCKED"
  /\ \A t, u \in Inside : t = u

-----------------------------------------------------------------------------
(* ccqueue and locksqueue: a lock for each end *)

TwoLockLabel == {"idle", "lock", "append", "swing", "take", "unlock", "return"}
TwoLockInv ==
  /\ pc \in [Thread -> TwoLockLabel]
  /\ DOMAIN root = {"first", "last", "enq", "deq"}
  /\ DOMAIN call = Thread
  /\ \A t \in Thread : /\ DOMAIN call[t] = {"st", "op", "arg", "ret"}
                       /\ pc[t] # "idle" => call[t].op \in {"enq", "deq"}
  /\ \A t \in Inside : root[call[t].op] = t

-----------------------------------------------------------------------------
(* locksuobject, locksstack, huobject and hstack: the CLH lock *)

LocksLabel == {"idle", "lock", "wait", "critical", "unlock", "return"}
HSynchLabel == {"idle", "link1", "link2", "spin", "lock", "wait", "combine", "release", "unlock", "return"}
ClhNode == 0 .. N_THREADS
clh == root.clh

ClhTypes ==
  /\ pc \in [Thread -> LocksLabel \cup HSynchLabel]
  /\ "clh" \in DOMAIN root /\ DOMAIN clh = {"Tail", "MyNode", "MyPred", "locked"}
  /\ clh.Tail \in ClhNode
  /\ clh.MyNode \in [Thread -> ClhNode] /\ clh.MyPred \in [Thread -> ClhNode \cup {Null}]
  /\ clh.locked \in [ClhNode -> BOOLEAN]

(* A thread in the lock owns the node of the one before it, another one its
   own; the last node is nobody's. *)
InLock(t) == pc[t] = "wait" \/ Critical(t)
Owned(t) == IF InLock(t) THEN clh.MyPred[t] ELSE clh.MyNode[t]

(* The lock is this thread's, or free for it to take. *)
HasLock(t) == Critical(t) \/ (pc[t] = "wait" /\ ~clh.locked[clh.MyPred[t]])
ClhInv ==
  /\ ClhTypes
  /\ \A t \in Thread : Owned(t) \in ClhNode /\ Owned(t) # clh.Tail
  /\ \A t, u \in Thread : Owned(t) = Owned(u) => t = u
  /\ \A t, u \in Thread : HasLock(t) /\ HasLock(u) => t = u
  /\ \A t \in Thread : HasLock(t) => clh.locked[clh.Tail]

-----------------------------------------------------------------------------
(* dsmuobject and dsmstack *)

DSMLabel == {"idle", "help", "link", "spin", "release", "advance", "close", "return"}
DSMNode == 0 .. 2 * N_THREADS - 1
Mine(t) == 2 * t + loc[t].toggle
Other(t) == 2 * t + (1 - loc[t].toggle)
Locked(n) == mem[n].locked
Completed(n) == mem[n].completed

DSMTypes ==
  /\ pc \in [Thread -> DSMLabel]
  /\ DOMAIN root = {"Tail"} /\ root.Tail \in DSMNode \cup {Null}
  /\ DOMAIN loc = Thread /\ DOMAIN mem = DSMNode
  /\ \A t \in Thread : DOMAIN loc[t] = {"toggle", "p", "counter"} /\ loc[t].toggle \in {0, 1}
  /\ \A n \in DSMNode :
       /\ DOMAIN mem[n] = {"next", "arg", "ret", "locked", "completed", "pid"}
       /\ mem[n].next \in DSMNode \cup {Null}
       /\ mem[n].locked \in BOOLEAN /\ mem[n].completed \in BOOLEAN
  /\ \A t \in Thread : pc[t] = "link" \/ Critical(t) => loc[t].p \in DSMNode

(* The combiner, or the thread that will be it. *)
Chosen(t) ==
  Critical(t) \/ (pc[t] \in {"link", "spin"} /\ ~Locked(Mine(t)) /\ ~Completed(Mine(t)))

(* A node that waits to be served is linked to nothing, or to a node that waits
   behind it. *)
Waits(n) == \E w \in Thread : n = Mine(w) /\ pc[w] = "spin" /\ Locked(n) /\ ~Completed(n)
InLine(n) ==
  \/ \E w \in Thread : n = Mine(w) /\ pc[w] \in {"link", "spin"} /\ ~Completed(n)
  \/ \E t \in Inside : n = loc[t].p
LineOK ==
  /\ \A n, m \in DSMNode : InLine(n) /\ mem[n].next = m => Waits(m)
  /\ \A n, m \in DSMNode : InLine(n) /\ InLine(m) /\ mem[n].next = mem[m].next /\ mem[n].next # Null => n = m

(* The node the combiner is at: it is served once, and not used again before
   the combiner has left it. *)
ServedOK(t) ==
  /\ pc[t] \in {"help", "release"} =>
       /\ \E w \in Thread : loc[t].p = Mine(w) /\ (w = t \/ (pc[w] = "spin" /\ Locked(Mine(w))))
       /\ \A n \in DSMNode : InLine(n) => mem[n].next # loc[t].p
  /\ pc[t] \in {"release", "advance", "close"} => Completed(loc[t].p)
  /\ pc[t] \in {"advance", "close"} =>
       \E w \in Thread :
         \/ loc[t].p = Mine(w)
         \/ /\ loc[t].p = Other(w)
            /\ pc[w] \in {"link", "spin"} /\ Locked(Mine(w)) /\ ~Completed(Mine(w))

DSMInv ==
  /\ DSMTypes
  /\ \A t, u \in Thread : Chosen(t) /\ Chosen(u) => t = u
  /\ \A t \in Thread : Chosen(t) => root.Tail # Null
  /\ \A t \in Thread : pc[t] = "link" => Locked(Mine(t)) /\ ~Completed(Mine(t))
  /\ LineOK
  /\ \A t \in Thread : ServedOK(t)

-----------------------------------------------------------------------------
(* ccuobject, ccstack, huobject and hstack: a list, in the last two one for each
   cluster of threads *)

HPrograms  == {"huobject", "hstack"}
CCPrograms == {"ccuobject", "ccstack"} \cup HPrograms
CCLabel == {"idle", "link1", "link2", "spin", "lock", "wait", "combine", "release", "advance", "unlock", "return"}
Clusters == IF prog \in HPrograms THEN {0, 1} ELSE {0}
CCNode == IF prog \in HPrograms THEN 0 .. 2 * N_THREADS + 1 ELSE 0 .. 2 * N_THREADS
Spares == IF prog = "ccstack" THEN 2 ELSE 1
spare(t) == loc[t].spare
cur(t) == loc[t].cur
cluster(t) == loc[t].cluster
Last(c) == root.Tail[c]

CCTypes ==
  /\ pc \in [Thread -> CCLabel]
  /\ prog # "ccstack" => \A t \in Thread : pc[t] # "advance"
  /\ "Tail" \in DOMAIN root /\ root.Tail \in [Clusters -> CCNode]
  /\ DOMAIN loc = Thread /\ DOMAIN mem = CCNode
  /\ \A t \in Thread :
       /\ DOMAIN loc[t] = {"spare", "cluster", "mine", "cur", "p", "next", "counter"}
       /\ cluster(t) \in Clusters
       /\ spare(t) \in [1..Spares -> CCNode]
  /\ \A n \in CCNode :
       /\ DOMAIN mem[n] = {"next", "arg_ret", "locked", "completed", "owner"}
       /\ mem[n].locked \in BOOLEAN /\ mem[n].completed \in BOOLEAN

(* A node is spare for one thread, or the last one of a list; a thread that runs
   took the last one along as the last of its spare ones. *)
NodesOK ==
  /\ \A t, u \in Thread, i, j \in 1..Spares : spare(t)[i] = spare(u)[j] => t = u /\ i = j
  /\ \A t \in Thread, i \in 1..Spares, c \in Clusters : spare(t)[i] # Last(c)
  /\ \A c, d \in Clusters : Last(c) = Last(d) => c = d
  /\ \A t \in Thread : pc[t] # "idle" => cur(t) = spare(t)[Spares]
  /\ \A c \in Clusters : mem[Last(c)].next = Null /\ ~Completed(Last(c))

(* The thread at the front of a list serves it; with clusters it first waits
   for the lock. *)
CCInside == {"lock", "wait", "combine", "release", "advance"}
Combining(t) == pc[t] \in CCInside
Queued(t) == pc[t] \in {"link1", "link2", "spin"}
Unserved(t) == (Queued(t) \/ Combining(t)) /\ ~Completed(cur(t))
Elected(t) == Combining(t) \/ (Queued(t) /\ ~Locked(cur(t)) /\ ~Completed(cur(t)))

(* A node of list c that is still to be served, or to be left to the next thread. *)
Ahead(n, c) ==
  /\ n = Last(c) \/ \E w \in Thread : Queued(w) /\ cluster(w) = c /\ n = cur(w)
  /\ Locked(n) /\ ~Completed(n)
Alone(n) == \A u \in Thread : Unserved(u) => loc[u].mine # n
ChainOK ==
  /\ \A t \in Thread : Unserved(t) => Ahead(loc[t].mine, cluster(t))
  /\ \A t, u \in Thread : Unserved(t) /\ Unserved(u) /\ loc[t].mine = loc[u].mine => t = u
  /\ \A t \in Thread : Queued(t) \/ Combining(t) => mem[cur(t)].next \in {Null, loc[t].mine}

(* The node the combiner goes to next: it has read it, or it is still in the
   node it is at. *)
Following(t) == IF prog = "ccstack" THEN mem[loc[t].p].next ELSE loc[t].next
CombinerOK(t) ==
  /\ pc[t] \in {"lock", "wait", "combine"} =>
       /\ (loc[t].p = cur(t) /\ Unserved(t)) \/ Ahead(loc[t].p, cluster(t))
       /\ Alone(loc[t].p)
  /\ pc[t] \in {"release", "advance"} =>
       /\ Ahead(Following(t), cluster(t)) /\ Alone(Following(t))
  /\ pc[t] = "release" =>
       /\ Completed(loc[t].p)
       /\ \E w \in Thread : loc[t].p = cur(w) /\ cluster(w) = cluster(t) /\ (w = t \/ (Queued(w) /\ Locked(cur(w))))
  /\ pc[t] = "advance" =>
       \E w \in Thread :
         \/ loc[t].p = spare(w)[2]
         \/ /\ loc[t].p = spare(w)[1]
            /\ Queued(w) /\ Locked(cur(w)) /\ ~Completed(cur(w))

CCInv ==
  /\ CCTypes /\ NodesOK /\ ChainOK
  /\ \A t, u \in Thread : Elected(t) /\ Elected(u) /\ cluster(t) = cluster(u) => t = u
  /\ \A t \in Thread : Elected(t) => Locked(Last(cluster(t)))
  /\ \A t \in Thread : CombinerOK(t)

-----------------------------------------------------------------------------
(* All of them *)

SynchInv ==
  /\ prog = "oyamauobject" => OyamaInv
  /\ prog \in {"ccqueue", "locksqueue"} => TwoLockInv
  /\ prog \in {"locksuobject", "locksstack", "huobject", "hstack"} => ClhInv
  /\ prog \in {"dsmuobject", "dsmstack"} => DSMInv
  /\ prog \in CCPrograms => CCInv

-----------------------------------------------------------------------------
(* The step of a program *)

(* In a program of the library but the two lists, one thread takes a step of
   that program. *)
LEMMA ProgramStep ==
  ASSUME prog \notin Lists, [ProgramsNext]_allVars
  PROVE  prog' = prog /\ (UNCHANGED vars \/ \E t \in Thread : SynchStep(t))
<1>1. CASE UNCHANGED allVars
  BY <1>1 DEF allVars, vars
<1>2. CASE ProgramsNext
  <2>1. PICK t \in Thread : Step(t) \/ ListCall(t)
    BY <1>2 DEF ProgramsNext
  <2> QED
    BY <2>1 DEF Step, ListCall, Lists
<1> QED
  BY <1>1, <1>2

(* Who is inside, in each family of programs. *)
LEMMA CriticalIs ==
  ASSUME prog' = prog
  PROVE  /\ prog = "oyamauobject" => \A t \in Thread :
              /\ Critical(t) <=> pc[t] \in {"sweep", "help", "complete", "unlock"}
              /\ Critical(t)' <=> pc'[t] \in {"sweep", "help", "complete", "unlock"}
         /\ prog \in {"ccqueue", "locksqueue"} => \A t \in Thread :
              /\ Critical(t) <=> pc[t] \in {"append", "swing", "take", "unlock"}
              /\ Critical(t)' <=> pc'[t] \in {"append", "swing", "take", "unlock"}
         /\ prog \in {"locksuobject", "locksstack"} => \A t \in Thread :
              /\ Critical(t) <=> pc[t] \in {"critical", "unlock"}
              /\ Critical(t)' <=> pc'[t] \in {"critical", "unlock"}
         /\ prog \in {"huobject", "hstack"} => \A t \in Thread :
              /\ Critical(t) <=> pc[t] \in {"combine", "release", "unlock"}
              /\ Critical(t)' <=> pc'[t] \in {"combine", "release", "unlock"}
         /\ prog \in {"dsmuobject", "dsmstack"} => \A t \in Thread :
              /\ Critical(t) <=> pc[t] \in {"help", "release", "advance", "close"}
              /\ Critical(t)' <=> pc'[t] \in {"help", "release", "advance", "close"}
         /\ prog \in {"ccuobject", "ccstack"} => \A t \in Thread :
              /\ Critical(t) <=> pc[t] \in {"combine", "release", "advance"}
              /\ Critical(t)' <=> pc'[t] \in {"combine", "release", "advance"}
<1>1. CASE prog = "oyamauobject"
  BY <1>1 DEF Critical
<1>2. CASE prog \in {"ccqueue", "locksqueue"}
  BY <1>2 DEF Critical
<1>3. CASE prog \in {"locksuobject", "locksstack"}
  BY <1>3 DEF Critical
<1>4. CASE prog \in {"huobject", "hstack"}
  BY <1>4 DEF Critical
<1>5. CASE prog \in {"dsmuobject", "dsmstack"}
  BY <1>5 DEF Critical
<1>6. CASE prog \in {"ccuobject", "ccstack"}
  BY <1>6 DEF Critical
<1> QED
  BY <1>1, <1>2, <1>3, <1>4, <1>5, <1>6

-----------------------------------------------------------------------------
(* oyamauobject *)

(* The lock bit is set by the thread that found it clear, and cleared by the
   thread inside. *)
LEMMA OyamaKeeps ==
  ASSUME prog = "oyamauobject", OyamaInv, NEW t \in Thread, Oy!OyamaStep(t), prog' = prog
  PROVE  OyamaInv'
<1> USE DEF Oy!Go, Oy!Call, Oy!Return
<1>1. /\ pc \in [Thread -> OyamaLabel] /\ DOMAIN root = {"lock", "tail"}
      /\ \A u \in Thread : Critical(u) <=> pc[u] \in {"sweep", "help", "complete", "unlock"}
      /\ \A u \in Thread : Critical(u)' <=> pc'[u] \in {"sweep", "help", "complete", "unlock"}
      /\ \A u \in Thread : Critical(u) => root.lock = "LOCKED"
      /\ \A u, w \in Thread : Critical(u) /\ Critical(w) => u = w
  BY CriticalIs DEF OyamaInv, Inside
<1>2. PICK l \in OyamaLabel : pc' = [pc EXCEPT ![t] = l]
  <2>1. CASE Oy!InsertAgain(t)
    <3>1. pc' = [pc EXCEPT ![t] = pc[t]] /\ pc[t] \in OyamaLabel
      BY <1>1, <2>1 DEF Oy!InsertAgain
    <3> QED
      BY <3>1
  <2>2. CASE Oy!TryLock(t) \/ Oy!Sweep(t) \/ Oy!Complete(t)
    BY <2>2 DEF Oy!TryLock, Oy!Sweep, Oy!Complete, OyamaLabel
  <2>3. CASE \/ Oy!Announce(t) \/ Oy!Insert(t) \/ Oy!Help(t) \/ Oy!Unlock(t) \/ Oy!Wait(t) \/ Oy!ReturnResult(t)
    BY <2>3 DEF Oy!Announce, Oy!Insert, Oy!Help, Oy!Unlock, Oy!Wait, Oy!ReturnResult, OyamaLabel
  <2> QED
    BY <2>1, <2>2, <2>3 DEF Oy!OyamaStep
<1>3. SUFFICES /\ DOMAIN root' = {"lock", "tail"}
               /\ \A u \in Thread : Critical(u)' => root'.lock = "LOCKED"
               /\ \A u, w \in Thread : Critical(u)' /\ Critical(w)' => u = w
  <2>1. pc' \in [Thread -> OyamaLabel]
    BY <1>1, <1>2
  <2> QED
    BY <2>1 DEF OyamaInv, Inside
<1>4. CASE Oy!TryLock(t)
  BY <1>1, <1>2, <1>4 DEF Oy!TryLock
<1>5. CASE Oy!Unlock(t)
  BY <1>1, <1>2, <1>5 DEF Oy!Unlock
<1>6. CASE /\ root'.lock = root.lock /\ DOMAIN root' = DOMAIN root
           /\ pc'[t] \in {"sweep", "help", "complete", "unlock"} => pc[t] \in {"sweep", "help", "complete", "unlock"}
  BY <1>1, <1>2, <1>6
<1>7. CASE Oy!Announce(t) \/ Oy!Insert(t) \/ Oy!InsertAgain(t) \/ Oy!Wait(t) \/ Oy!ReturnResult(t)
  BY <1>1, <1>2, <1>6, <1>7 DEF Oy!Announce, Oy!Insert, Oy!InsertAgain, Oy!Wait, Oy!ReturnResult
<1>8. CASE Oy!Sweep(t) \/ Oy!Help(t) \/ Oy!Complete(t)
  BY <1>1, <1>2, <1>6, <1>8 DEF Oy!Sweep, Oy!Help, Oy!Complete
<1> QED
  BY <1>4, <1>5, <1>7, <1>8 DEF Oy!OyamaStep

-----------------------------------------------------------------------------
(* ccqueue and locksqueue *)

(* Each lock is taken when it is free, and freed by the thread that took it. *)
LEMMA TwoLockKeeps ==
  ASSUME prog \in {"ccqueue", "locksqueue"}, TwoLockInv, NEW t \in Thread, Tlq!TwoLockStep(t), prog' = prog
  PROVE  TwoLockInv'
<1> USE DEF Tlq!Go, Tlq!calls
<1>1. /\ pc \in [Thread -> TwoLockLabel] /\ DOMAIN root = {"first", "last", "enq", "deq"}
      /\ DOMAIN call = Thread
      /\ \A u \in Thread : /\ DOMAIN call[u] = {"st", "op", "arg", "ret"}
                           /\ pc[u] # "idle" => call[u].op \in {"enq", "deq"}
      /\ \A u \in Thread : Critical(u) <=> pc[u] \in {"append", "swing", "take", "unlock"}
      /\ \A u \in Thread : Critical(u)' <=> pc'[u] \in {"append", "swing", "take", "unlock"}
      /\ \A u \in Thread : Critical(u) => root[call[u].op] = u
  BY CriticalIs DEF TwoLockInv, Inside
<1>2. PICK l \in TwoLockLabel : pc' = [pc EXCEPT ![t] = l]
  <2>1. CASE Tlq!QueueLock(t)
    BY <2>1 DEF Tlq!QueueLock, TwoLockLabel
  <2>2. CASE Tlq!QueueCall(t) \/ Tlq!QueueReturn(t)
    BY <2>2 DEF Tlq!QueueCall, Tlq!QueueReturn, Tlq!Call, Tlq!Return, TwoLockLabel
  <2>3. CASE Tlq!QueueLink(t) \/ Tlq!QueueSwing(t) \/ Tlq!QueueTake(t) \/ Tlq!QueueUnlock(t)
    BY <2>3 DEF Tlq!QueueLink, Tlq!QueueSwing, Tlq!QueueTake, Tlq!QueueUnlock, TwoLockLabel
  <2> QED
    BY <2>1, <2>2, <2>3 DEF Tlq!TwoLockStep
(* the calls: who is inside keeps its operation *)
<1>3. /\ DOMAIN call' = Thread
      /\ \A u \in Thread : DOMAIN call'[u] = {"st", "op", "arg", "ret"}
      /\ \A u \in Thread \ {t} : call'[u] = call[u]
      /\ pc[t] # "idle" /\ pc'[t] # "idle" => call'[t].op = call[t].op
      /\ pc[t] = "idle" => call'[t].op \in {"enq", "deq"}
  <2>1. CASE Tlq!QueueCall(t)
    <3>1. Tlq!OpOf(runs[t]) \in {"enq", "deq"}
      BY DEF Tlq!OpOf, Tlq!Stacks, Tlq!Queues
    <3>2. call' = [call EXCEPT ![t] = [Tlq!Object!Idle EXCEPT !.st = "asked", !.op = Tlq!OpOf(runs[t]),
                                                             !.arg = <<"arg", t, runs[t]>>]]
          /\ pc[t] = "idle"
      BY <2>1 DEF Tlq!QueueCall, Tlq!Call
    <3>3. DOMAIN Tlq!Object!Idle = {"st", "op", "arg", "ret"}
      BY DEF Tlq!Object!Idle
    <3> QED
      BY <1>1, <3>1, <3>2, <3>3
  <2>2. CASE Tlq!QueueReturn(t)
    <3>1. call' = [call EXCEPT ![t] = Tlq!Object!Idle] /\ pc[t] = "return" /\ pc'[t] = "idle"
      BY <1>1, <2>2 DEF Tlq!QueueReturn, Tlq!Return
    <3>3. DOMAIN Tlq!Object!Idle = {"st", "op", "arg", "ret"}
      BY DEF Tlq!Object!Idle
    <3> QED
      BY <1>1, <3>1, <3>3
  <2>3. CASE Tlq!QueueLink(t) \/ Tlq!QueueTake(t)
    <3>1. PICK x : call' = [call EXCEPT ![t].st = "done", ![t].ret = x]
      BY <2>3 DEF Tlq!QueueLink, Tlq!QueueTake, Tlq!Perform
    <3>2. pc[t] # "idle"
      BY <2>3 DEF Tlq!QueueLink, Tlq!QueueTake
    <3> QED
      BY <1>1, <3>1, <3>2
  <2>4. CASE Tlq!QueueLock(t) \/ Tlq!QueueSwing(t) \/ Tlq!QueueUnlock(t)
    <3>1. UNCHANGED call /\ pc[t] # "idle"
      BY <2>4 DEF Tlq!QueueLock, Tlq!QueueSwing, Tlq!QueueUnlock
    <3> QED
      BY <1>1, <3>1
  <2> QED
    BY <2>1, <2>2, <2>3, <2>4 DEF Tlq!TwoLockStep
<1>4. /\ DOMAIN root' = {"first", "last", "enq", "deq"}
      /\ \A u \in Thread : Critical(u)' => root'[call'[u].op] = u
  <2>0. t # Null
    BY SynchAssumption DEF Thread, Null
  <2>1. CASE Tlq!QueueLock(t)
    <3>1. root' = [root EXCEPT ![call[t].op] = t] /\ root[call[t].op] = Null /\ pc[t] = "lock" /\ pc'[t] # "idle"
      BY <1>1, <2>1 DEF Tlq!QueueLock, Tlq!Null, Null
    <3>2. \A u \in Thread : Critical(u) => call[u].op # call[t].op
      BY <1>1, <3>1, SynchAssumption DEF Thread, Null
    <3> QED
      BY <1>1, <1>2, <1>3, <3>1, <3>2
  <2>2. CASE Tlq!QueueUnlock(t)
    <3>1. root' = [root EXCEPT ![call[t].op] = Null] /\ pc[t] = "unlock" /\ pc'[t] = "return"
      BY <1>1, <2>2 DEF Tlq!QueueUnlock, Tlq!Null, Null
    <3>2. \A u \in Thread : Critical(u) /\ u # t => call[u].op # call[t].op
      BY <1>1, <3>1
    <3> QED
      BY <1>1, <1>2, <1>3, <3>1, <3>2
  <2>3. CASE Tlq!QueueCall(t) \/ Tlq!QueueReturn(t) \/ Tlq!QueueLink(t) \/ Tlq!QueueSwing(t) \/ Tlq!QueueTake(t)
    <3>1. DOMAIN root' = DOMAIN root /\ root'.enq = root.enq /\ root'.deq = root.deq
      BY <1>1, <2>3 DEF Tlq!QueueCall, Tlq!QueueReturn, Tlq!QueueLink, Tlq!QueueSwing, Tlq!QueueTake
    <3>2. Critical(t)' => Critical(t) /\ pc[t] # "idle" /\ pc'[t] # "idle"
      <4>1. CASE Tlq!QueueCall(t) \/ Tlq!QueueReturn(t)
        BY <1>1, <4>1 DEF Tlq!QueueCall, Tlq!QueueReturn, Tlq!Call, Tlq!Return
      <4>2. CASE Tlq!QueueLink(t) \/ Tlq!QueueSwing(t) \/ Tlq!QueueTake(t)
        BY <1>1, <4>2 DEF Tlq!QueueLink, Tlq!QueueSwing, Tlq!QueueTake
      <4> QED
        BY <2>3, <4>1, <4>2
    <3>3. \A u \in Thread : Critical(u)' => Critical(u) /\ call'[u].op = call[u].op /\ call[u].op \in {"enq", "deq"}
      BY <1>1, <1>2, <1>3, <3>2
    <3> QED
      BY <1>1, <3>1, <3>3
  <2> QED
    BY <2>1, <2>2, <2>3 DEF Tlq!TwoLockStep
<1>5. pc' \in [Thread -> TwoLockLabel] /\ \A u \in Thread : pc'[u] # "idle" => call'[u].op \in {"enq", "deq"}
  BY <1>1, <1>2, <1>3
<1> QED
  BY <1>3, <1>4, <1>5 DEF TwoLockInv, Inside

-----------------------------------------------------------------------------
(* locksuobject, locksstack, huobject and hstack *)

ClhPrograms == {"locksuobject", "locksstack", "huobject", "hstack"}

(* Who is inside, from the places of the programs on the CLH lock. *)
LEMMA ClhCritical ==
  ASSUME prog \in ClhPrograms, prog' = prog
  PROVE  /\ \A u \in Thread : pc'[u] = pc[u] => (Critical(u)' <=> Critical(u))
         /\ \A u \in Thread : pc[u] \in {"idle", "lock", "wait", "link1", "link2", "spin", "return"} => ~Critical(u)
         /\ \A u \in Thread : pc'[u] \in {"idle", "lock", "wait", "link1", "link2", "spin", "return"} => ~Critical(u)'
         /\ \A u \in Thread : pc[u] = "unlock" => Critical(u)
         /\ prog \in {"locksuobject", "locksstack"} =>
              \A u \in Thread : pc'[u] \in {"critical", "unlock"} => Critical(u)'
         /\ prog \in {"huobject", "hstack"} =>
              \A u \in Thread : pc'[u] \in {"combine", "release", "unlock"} => Critical(u)'
         /\ prog \in {"locksuobject", "locksstack"} =>
              \A u \in Thread : pc[u] \in {"critical", "unlock"} => Critical(u)
         /\ prog \in {"huobject", "hstack"} =>
              \A u \in Thread : pc[u] \in {"combine", "release", "unlock"} => Critical(u)
<1>1. CASE prog \in {"locksuobject", "locksstack"}
  BY <1>1, CriticalIs
<1>2. CASE prog \in {"huobject", "hstack"}
  BY <1>2, CriticalIs
<1> QED
  BY <1>1, <1>2 DEF ClhPrograms

(* A step that leaves the lock alone, and goes neither in nor out. *)
LEMMA ClhStays ==
  ASSUME prog \in ClhPrograms, prog' = prog, ClhInv, NEW t \in Thread, NEW l \in LocksLabel \cup HSynchLabel,
         pc' = [pc EXCEPT ![t] = l], DOMAIN root' = DOMAIN root, clh' = clh,
         pc[t] # "wait", l # "wait", Critical(t)' <=> Critical(t)
  PROVE  ClhInv'
<1>1. ClhTypes'
  BY DEF ClhInv, ClhTypes
<1>2. \A u \in Thread : (Critical(u)' <=> Critical(u)) /\ (pc'[u] = "wait" <=> pc[u] = "wait")
  BY ClhCritical DEF ClhInv, ClhTypes
<1>3. \A u \in Thread : Owned(u)' = Owned(u) /\ (HasLock(u)' <=> HasLock(u))
  BY <1>2 DEF Owned, HasLock, InLock
<1> QED
  BY <1>1, <1>3 DEF ClhInv

(* A thread exchanges its node for the last one. *)
LEMMA ClhLocks ==
  ASSUME prog \in ClhPrograms, prog' = prog, ClhInv, NEW t \in Thread, Clh!ClhLock(t, "lock", "wait")
  PROVE  ClhInv'
<1>1. /\ pc' = [pc EXCEPT ![t] = "wait"] /\ pc[t] = "lock"
      /\ DOMAIN root' = DOMAIN root
      /\ clh' = [clh EXCEPT !.locked[clh.MyNode[t]] = TRUE, !.MyPred[t] = clh.Tail, !.Tail = clh.MyNode[t]]
  BY DEF Clh!ClhLock, Clh!ClhQueued, Clh!Go, clh, ClhInv, ClhTypes
<1>2. ClhTypes
  BY DEF ClhInv
<1>3. /\ DOMAIN clh' = DOMAIN clh /\ clh'.Tail = clh.MyNode[t] /\ clh'.MyNode = clh.MyNode
      /\ clh'.MyPred = [clh.MyPred EXCEPT ![t] = clh.Tail]
      /\ clh'.locked = [clh.locked EXCEPT ![clh.MyNode[t]] = TRUE]
  BY <1>1, <1>2 DEF ClhTypes
<1>4. ClhTypes'
  BY <1>1, <1>2, <1>3 DEF ClhTypes, LocksLabel
<1>5. ~Critical(t) /\ ~Critical(t)' /\ \A u \in Thread \ {t} : (Critical(u)' <=> Critical(u)) /\ pc'[u] = pc[u]
  BY <1>1, <1>2, ClhCritical DEF ClhTypes
<1>6. Owned(t) = clh.MyNode[t] /\ Owned(t)' = clh.Tail
  BY <1>1, <1>2, <1>3, <1>5 DEF Owned, InLock, ClhTypes
<1>7. \A u \in Thread \ {t} : Owned(u)' = Owned(u)
  BY <1>2, <1>3, <1>5 DEF Owned, InLock, ClhTypes
<1>8. \A u \in Thread : Owned(u)' \in ClhNode /\ Owned(u)' # clh'.Tail
  BY <1>2, <1>3, <1>6, <1>7 DEF ClhInv, ClhTypes
<1>9. \A u, w \in Thread : Owned(u)' = Owned(w)' => u = w
  BY <1>6, <1>7 DEF ClhInv
<1>10. \A u \in Thread \ {t} : HasLock(u)' <=> HasLock(u)
  <2> TAKE u \in Thread \ {t}
  <2>1. pc[u] = "wait" => clh.MyPred[u] # clh.MyNode[t]
    BY <1>6 DEF ClhInv, Owned, InLock
  <2>2. pc[u] = "wait" => clh.MyPred[u] \in ClhNode
    BY DEF ClhInv, Owned, InLock
  <2> QED
    BY <1>2, <1>3, <1>5, <2>1, <2>2 DEF HasLock, ClhTypes
<1>11. clh'.locked[clh'.Tail]
  BY <1>2, <1>3 DEF ClhTypes
<1>12. HasLock(t)' => ~clh.locked[clh.Tail]
  BY <1>1, <1>2, <1>3, <1>5, <1>6 DEF HasLock, ClhTypes, ClhInv
<1>13. \A u, w \in Thread : HasLock(u)' /\ HasLock(w)' => u = w
  BY <1>10, <1>12 DEF ClhInv
<1> QED
  BY <1>4, <1>8, <1>9, <1>11, <1>13 DEF ClhInv

(* The node before it is free: the thread goes in. *)
LEMMA ClhSpins ==
  ASSUME prog \in ClhPrograms, prog' = prog, ClhInv, NEW t \in Thread, NEW l \in LocksLabel \cup HSynchLabel,
         Clh!ClhSpin(t, "wait", l), Critical(t)'
  PROVE  ClhInv'
<1>1. /\ pc' = [pc EXCEPT ![t] = l] /\ pc[t] = "wait" /\ UNCHANGED root
      /\ ~clh.locked[clh.MyPred[t]]
  BY DEF Clh!ClhSpin, Clh!ClhFree, Clh!Go, clh
<1>2. ClhTypes /\ clh' = clh
  BY <1>1 DEF ClhInv, clh
<1>3. \A u \in Thread \ {t} : (Critical(u)' <=> Critical(u)) /\ pc'[u] = pc[u]
  BY <1>1, <1>2, ClhCritical DEF ClhTypes
<1>4. HasLock(t)
  BY <1>1 DEF HasLock
<1>5. \A u \in Thread : Owned(u)' = Owned(u) /\ (HasLock(u)' <=> HasLock(u))
  BY <1>1, <1>2, <1>3, <1>4 DEF Owned, InLock, HasLock
<1>6. ClhTypes'
  BY <1>1, <1>2 DEF ClhTypes
<1> QED
  BY <1>2, <1>5, <1>6 DEF ClhInv

(* A thread frees its own node, which one thread at most waits on, and keeps
   the node before it. *)
LEMMA ClhUnlocks ==
  ASSUME prog \in ClhPrograms, prog' = prog, ClhInv, NEW t \in Thread, Clh!ClhUnlock(t, "unlock", "return")
  PROVE  ClhInv'
<1>1. /\ pc' = [pc EXCEPT ![t] = "return"] /\ pc[t] = "unlock"
      /\ DOMAIN root' = DOMAIN root
      /\ clh' = [clh EXCEPT !.locked[clh.MyNode[t]] = FALSE, !.MyNode[t] = clh.MyPred[t]]
  BY DEF Clh!ClhUnlock, Clh!ClhUnlocked, Clh!Go, clh, ClhInv, ClhTypes
<1>2. ClhTypes
  BY DEF ClhInv
<1>3. /\ DOMAIN clh' = DOMAIN clh /\ clh'.Tail = clh.Tail /\ clh'.MyPred = clh.MyPred
      /\ clh'.MyNode = [clh.MyNode EXCEPT ![t] = clh.MyPred[t]]
      /\ clh'.locked = [clh.locked EXCEPT ![clh.MyNode[t]] = FALSE]
  BY <1>1, <1>2 DEF ClhTypes
<1>5. Critical(t) /\ ~Critical(t)' /\ \A u \in Thread \ {t} : (Critical(u)' <=> Critical(u)) /\ pc'[u] = pc[u]
  BY <1>1, <1>2, ClhCritical DEF ClhTypes
<1>6. Owned(t) = clh.MyPred[t] /\ Owned(t)' = clh.MyPred[t] /\ clh.MyPred[t] \in ClhNode
  BY <1>1, <1>2, <1>3, <1>5 DEF Owned, InLock, ClhTypes, ClhInv
<1>4. ClhTypes'
  BY <1>1, <1>2, <1>3, <1>6 DEF ClhTypes, LocksLabel
<1>7. \A u \in Thread \ {t} : Owned(u)' = Owned(u)
  BY <1>2, <1>3, <1>5 DEF Owned, InLock, ClhTypes
<1>8. HasLock(t) /\ \A u \in Thread \ {t} : ~HasLock(u)
  BY <1>5 DEF HasLock, ClhInv
<1>9. ~HasLock(t)'
  BY <1>1, <1>2, <1>5 DEF HasLock, ClhTypes
<1>10. \A u \in Thread \ {t} : HasLock(u)' => Owned(u) = clh.MyNode[t] /\ pc[u] = "wait"
  <2> TAKE u \in Thread \ {t}
  <2>1. pc[u] = "wait" => clh.MyPred[u] \in ClhNode /\ Owned(u) = clh.MyPred[u]
    BY DEF ClhInv, Owned, InLock
  <2> QED
    BY <1>2, <1>3, <1>5, <1>8, <2>1 DEF HasLock, ClhTypes
<1>11. \A u, w \in Thread : HasLock(u)' /\ HasLock(w)' => u = w
  BY <1>9, <1>10 DEF ClhInv
<1>12. \A u \in Thread : HasLock(u)' => clh'.locked[clh'.Tail]
  <2> SUFFICES ASSUME NEW u \in Thread, HasLock(u)' PROVE clh'.locked[clh'.Tail]
    OBVIOUS
  <2>1. clh.locked[clh.Tail]
    BY <1>8 DEF ClhInv
  <2>2. Owned(u) = clh.MyNode[t]
    BY <1>9, <1>10
  <2>3. clh.MyNode[t] # clh.Tail
    BY <2>2 DEF ClhInv
  <2> QED
    BY <1>2, <1>3, <2>1, <2>3 DEF ClhTypes
<1>13. \A u \in Thread : Owned(u)' \in ClhNode /\ Owned(u)' # clh'.Tail
  BY <1>3, <1>6, <1>7 DEF ClhInv
<1>14. \A u, w \in Thread : Owned(u)' = Owned(w)' => u = w
  BY <1>6, <1>7 DEF ClhInv
<1> QED
  BY <1>4, <1>11, <1>12, <1>13, <1>14 DEF ClhInv

(* locksuobject and locksstack: what is done inside does not touch the lock. *)
LEMMA LocksKeep ==
  ASSUME prog \in {"locksuobject", "locksstack"}, ClhInv, NEW t \in Thread, Clh!LocksStep(t), prog' = prog
  PROVE  ClhInv'
<1>0. prog \in ClhPrograms /\ ClhTypes
  BY DEF ClhPrograms, ClhInv
<1>1. CASE Clh!ClhLock(t, "lock", "wait") \/ Clh!ClhUnlock(t, "unlock", "return")
  BY <1>0, <1>1, ClhLocks, ClhUnlocks
<1>2. CASE Clh!ClhSpin(t, "wait", "critical")
  <2>1. pc'[t] = "critical"
    BY <1>0, <1>2 DEF Clh!ClhSpin, Clh!Go, ClhTypes
  <2>2. Critical(t)'
    BY <1>0, <2>1, ClhCritical
  <2> QED
    BY <1>0, <1>2, <2>2, ClhSpins DEF LocksLabel
<1>3. CASE Clh!LocksCall(t) \/ Clh!Critical(t) \/ Clh!LocksReturn(t)
  <2>1. PICK l \in {"lock", "unlock", "idle"} :
          /\ pc' = [pc EXCEPT ![t] = l]
          /\ <<pc[t], l>> \in {<<"idle", "lock">>, <<"critical", "unlock">>, <<"return", "idle">>}
          /\ UNCHANGED root
    BY <1>3 DEF Clh!LocksCall, Clh!Critical, Clh!LocksReturn, Clh!Call, Clh!Return, Clh!Go
  <2>2. pc'[t] = l /\ clh' = clh
    BY <1>0, <2>1 DEF ClhTypes, clh
  <2>3. Critical(t)' <=> Critical(t)
    BY <1>0, <2>1, <2>2, ClhCritical
  <2> QED
    BY <1>0, <2>1, <2>2, <2>3, ClhStays DEF LocksLabel
<1> QED
  BY <1>1, <1>2, <1>3 DEF Clh!LocksStep

(* The lists of the clusters are apart from the lock. *)
LEMMA HSynchKeeps ==
  ASSUME prog \in {"huobject", "hstack"}, ClhInv, NEW t \in Thread, H!HSynchStep(t), prog' = prog
  PROVE  ClhInv'
<1>0. prog \in ClhPrograms /\ ClhTypes
  BY DEF ClhPrograms, ClhInv
<1>1. CASE H!ClhLock(t, "lock", "wait") \/ H!ClhUnlock(t, "unlock", "return")
  <2>1. Clh!ClhLock(t, "lock", "wait") \/ Clh!ClhUnlock(t, "unlock", "return")
    BY <1>1 DEF H!ClhLock, H!ClhUnlock, H!ClhQueued, H!ClhUnlocked, H!Go, H!calls,
                Clh!ClhLock, Clh!ClhUnlock, Clh!ClhQueued, Clh!ClhUnlocked, Clh!Go, Clh!calls
  <2> QED
    BY <1>0, <2>1, ClhLocks, ClhUnlocks
<1>2. CASE H!ClhSpin(t, "wait", "combine")
  <2>0. Clh!ClhSpin(t, "wait", "combine")
    BY <1>2 DEF H!ClhSpin, H!ClhFree, H!Go, H!calls, Clh!ClhSpin, Clh!ClhFree, Clh!Go, Clh!calls
  <2>1. pc'[t] = "combine"
    BY <1>0, <2>0 DEF Clh!ClhSpin, Clh!Go, ClhTypes
  <2>2. Critical(t)'
    BY <1>0, <2>1, ClhCritical
  <2> QED
    BY <1>0, <2>0, <2>2, ClhSpins DEF HSynchLabel
<1>3. SUFFICES ASSUME NEW l \in HSynchLabel, pc' = [pc EXCEPT ![t] = l], DOMAIN root' = DOMAIN root, clh' = clh,
                      pc[t] # "wait", l # "wait",
                      pc[t] \in {"combine", "release"} <=> l \in {"combine", "release", "unlock"},
                      pc[t] # "unlock"
               PROVE  ClhInv'
  <2>1. CASE H!Announce(t)
    BY <1>0, <1>3, <2>1 DEF H!Announce, H!Call, H!Go, clh, ClhTypes, HSynchLabel
  <2>2. CASE H!WriteRequest(t, "link1", "link2", call[t].arg) \/ H!LinkNode(t, "link2", "spin")
    BY <1>0, <1>3, <2>2 DEF H!WriteRequest, H!LinkNode, H!Go, clh, ClhTypes, HSynchLabel
  <2>3. CASE H!Spin(t, "lock")
    <3>1. pc[t] = "spin" /\ UNCHANGED root /\ \E l \in {"return", "lock"} : pc' = [pc EXCEPT ![t] = l]
      BY <2>3 DEF H!Spin, H!Go
    <3> QED
      BY <1>0, <1>3, <3>1 DEF clh, ClhTypes, HSynchLabel
  <2>4. CASE H!Help(t) \/ H!Release(t) \/ H!HandOver(t, "unlock")
    BY <1>0, <1>3, <2>4 DEF H!Help, H!Release, H!HandOver, H!Go, clh, ClhTypes, HSynchLabel
  <2>5. CASE H!ReturnResult(t)
    BY <1>0, <1>3, <2>5 DEF H!ReturnResult, H!Return, H!Go, clh, ClhTypes, HSynchLabel
  <2> QED
    BY <1>1, <1>2, <2>1, <2>2, <2>3, <2>4, <2>5 DEF H!HSynchStep
<1>4. Critical(t)' <=> Critical(t)
  BY <1>0, <1>3, CriticalIs DEF ClhTypes
<1> QED
  BY <1>0, <1>3, <1>4, ClhStays

-----------------------------------------------------------------------------
(* dsmuobject and dsmstack *)

DSMPrograms == {"dsmuobject", "dsmstack"}
DSMInside == {"help", "release", "advance", "close"}

(* The two nodes of a thread are its own. *)
LEMMA DSMNodes ==
  ASSUME DSMTypes
  PROVE  /\ \A u \in Thread : Mine(u) \in DSMNode /\ Other(u) \in DSMNode
         /\ \A u, w \in Thread : Mine(u) = Mine(w) => u = w
         /\ \A u, w \in Thread : Mine(u) # Other(w)
         /\ \A u, w \in Thread : Other(u) = Other(w) => u = w
         /\ Null \notin DSMNode
<1>1. \A u \in Thread : u \in 0 .. N_THREADS - 1 /\ loc[u].toggle \in {0, 1}
  BY DEF DSMTypes, Thread
<1>2. \A u \in Thread : Mine(u) = 2 * u + loc[u].toggle /\ Other(u) = 2 * u + (1 - loc[u].toggle)
  BY DEF Mine, Other
<1>3. N_THREADS \in Nat
  BY SynchAssumption
<1>4. \A u \in Thread : Mine(u) \in DSMNode /\ Other(u) \in DSMNode
  BY <1>1, <1>2, <1>3 DEF DSMNode
<1>5. \A u, w \in Thread : /\ Mine(u) = Mine(w) => u = w
                           /\ Mine(u) # Other(w)
                           /\ Other(u) = Other(w) => u = w
  BY <1>1, <1>2, <1>3
<1> QED
  BY <1>3, <1>4, <1>5 DEF DSMNode, Null

(* What every step has in common. *)
LEMMA DSMFrame ==
  ASSUME prog \in DSMPrograms, prog' = prog, DSMInv
  PROVE  /\ DSMTypes /\ LineOK
         /\ \A u \in Thread : (Critical(u) <=> pc[u] \in DSMInside) /\ (Critical(u)' <=> pc'[u] \in DSMInside)
         /\ \A u \in Thread : Critical(u) => Chosen(u)
         /\ \A u, w \in Thread : Chosen(u) /\ Chosen(w) => u = w
         /\ \A u, w \in Thread : Critical(u) /\ Critical(w) => u = w
         /\ \A u \in Thread : Chosen(u) => root.Tail # Null
         /\ \A u \in Thread : pc[u] = "link" => Locked(Mine(u)) /\ ~Completed(Mine(u))
         /\ \A u \in Thread : ServedOK(u)
         /\ \A u \in Thread : pc[u] \in DSMLabel
  BY CriticalIs DEF DSMInv, DSMPrograms, DSMInside, Chosen, DSMTypes

(* The node the combiner is at is the own node of a thread, or the other one
   of a thread that has announced since. *)
LEMMA ServedNode ==
  ASSUME prog \in DSMPrograms, prog' = prog, DSMInv, NEW u \in Thread, Critical(u)
  PROVE  /\ loc[u].p \in DSMNode /\ InLine(loc[u].p)
         /\ \E w \in Thread : \/ loc[u].p = Mine(w)
                              \/ /\ loc[u].p = Other(w)
                                 /\ pc[w] \in {"link", "spin"} /\ Locked(Mine(w)) /\ ~Completed(Mine(w))
<1>1. loc[u].p \in DSMNode
  BY DEF DSMInv, DSMTypes
<1>2. InLine(loc[u].p)
  BY DEF InLine, Inside
<1> QED
  BY <1>1, <1>2, DSMFrame DEF ServedOK, DSMInside

(* A thread that announces has its other node free, and becomes the combiner
   only when there is none. *)
LEMMA DSMAnnounce ==
  ASSUME prog \in DSMPrograms, prog' = prog, DSMInv, NEW t \in Thread, DSM!Announce(t)
  PROVE  DSMInv'
<1>0. PICK n \in DSMNode : n = Other(t)
  BY DSMFrame, DSMNodes
<1>1. PICK l \in {"help", "link"} :
        /\ pc' = [pc EXCEPT ![t] = l] /\ pc[t] = "idle"
        /\ l = "help" <=> root.Tail = Null
  BY DEF DSM!Announce, DSM!Call, DSM!Go, DSM!Null, Null
<1>2. PICK a : /\ mem' = [mem EXCEPT ![n] = [@ EXCEPT !.locked = TRUE, !.completed = FALSE, !.pid = t,
                                                     !.next = Null, !.arg = a]]
               /\ root' = [root EXCEPT !.Tail = n]
               /\ loc' = [loc EXCEPT ![t] = [toggle |-> 1 - loc[t].toggle, counter |-> 0,
                                             p |-> IF root.Tail = Null THEN n ELSE root.Tail]]
  BY <1>0 DEF DSM!Announce, DSM!Null, Null, Other
<1>3. DSMTypes /\ n \in DSMNode /\ Null \notin DSMNode
  BY DSMFrame, DSMNodes
<1>4. /\ DOMAIN mem' = DSMNode /\ \A m \in DSMNode \ {n} : mem'[m] = mem[m]
      /\ DOMAIN mem'[n] = DOMAIN mem[n]
      /\ mem'[n].next = Null /\ mem'[n].locked = TRUE /\ mem'[n].completed = FALSE
  BY <1>2, <1>3 DEF DSMTypes
<1>5. DOMAIN root' = {"Tail"} /\ root'.Tail = n
  BY <1>2, <1>3 DEF DSMTypes
<1>6. /\ DOMAIN loc' = Thread /\ \A u \in Thread \ {t} : loc'[u] = loc[u]
      /\ DOMAIN loc'[t] = {"toggle", "p", "counter"}
      /\ loc'[t].toggle = 1 - loc[t].toggle
      /\ loc'[t].p = IF root.Tail = Null THEN n ELSE root.Tail
  BY <1>2, <1>3 DEF DSMTypes
<1>7. /\ Mine(t)' = n /\ Other(t)' = Mine(t)
      /\ \A u \in Thread \ {t} : Mine(u)' = Mine(u) /\ Other(u)' = Other(u)
  BY <1>0, <1>3, <1>6 DEF Mine, Other, DSMTypes, Thread
<1>8. pc'[t] = l /\ (\A u \in Thread \ {t} : pc'[u] = pc[u]) /\ pc' \in [Thread -> DSMLabel]
  BY <1>1, <1>3 DEF DSMTypes, DSMLabel
<1>9. \A u \in Thread \ {t} : Critical(u)' <=> Critical(u)
  BY <1>8, DSMFrame
<1>10. DSMTypes'
  <2>1. \A m \in DSMNode :
          /\ DOMAIN mem'[m] = {"next", "arg", "ret", "locked", "completed", "pid"}
          /\ mem'[m].next \in DSMNode \cup {Null}
          /\ mem'[m].locked \in BOOLEAN /\ mem'[m].completed \in BOOLEAN
    BY <1>3, <1>4 DEF DSMTypes
  <2>2. \A u \in Thread : DOMAIN loc'[u] = {"toggle", "p", "counter"} /\ loc'[u].toggle \in {0, 1}
    BY <1>3, <1>6 DEF DSMTypes
  <2>3. \A u \in Thread : pc'[u] = "link" \/ Critical(u)' => loc'[u].p \in DSMNode
    BY <1>3, <1>6, <1>8, <1>9 DEF DSMTypes
  <2> QED
    BY <1>3, <1>4, <1>5, <1>6, <1>8, <2>1, <2>2, <2>3 DEF DSMTypes
<1>11. /\ \A u \in Thread \ {t} : Mine(u) # n
       /\ \A m \in DSMNode \ {n} : (Locked(m)' <=> Locked(m)) /\ (Completed(m)' <=> Completed(m))
       /\ Locked(n)' /\ ~Completed(n)'
  BY <1>0, <1>3, <1>4, DSMNodes DEF Locked, Completed
<1>12. \A u \in Thread \ {t} : Chosen(u)' <=> Chosen(u)
  BY <1>0, <1>3, <1>4, <1>7, <1>8, <1>9, DSMNodes DEF Chosen, Locked, Completed
<1>13. Chosen(t)' => l = "help"
  BY <1>4, <1>7, <1>8, DSMFrame DEF Chosen, DSMInside, Locked
<1>14. \A u \in Thread \ {t} : Critical(u) => loc[u].p # n /\ l = "link"
  <2> SUFFICES ASSUME NEW u \in Thread \ {t}, Critical(u) PROVE loc[u].p # n /\ l = "link"
    OBVIOUS
  <2>1. PICK w \in Thread : \/ loc[u].p = Mine(w)
                            \/ loc[u].p = Other(w) /\ pc[w] \in {"link", "spin"}
    BY ServedNode
  <2>2. loc[u].p # n
    BY <1>0, <1>1, <1>3, <2>1, DSMNodes
  <2> QED
    BY <1>1, <2>2, DSMFrame
<1>15. \A m \in DSMNode : InLine(m)' /\ m # n => InLine(m)
  <2> SUFFICES ASSUME NEW m \in DSMNode, m # n, InLine(m)' PROVE InLine(m)
    OBVIOUS
  <2>1. CASE \E w \in Thread : m = Mine(w)' /\ pc'[w] \in {"link", "spin"} /\ ~Completed(m)'
    BY <1>7, <1>8, <1>11, <2>1 DEF InLine
  <2>2. CASE \E u \in Inside' : m = loc'[u].p
    <3>1. PICK u \in Thread : Critical(u)' /\ m = loc'[u].p
      BY <2>2 DEF Inside
    <3>2. u # t
      BY <1>1, <1>6, <1>8, <3>1, DSMFrame DEF DSMInside
    <3> QED
      BY <1>6, <1>9, <3>1, <3>2 DEF InLine, Inside
  <2> QED
    BY <2>1, <2>2 DEF InLine
<1>16. \A m \in DSMNode : Waits(m) => Waits(m)' /\ m # n
  <2> SUFFICES ASSUME NEW m \in DSMNode, Waits(m) PROVE Waits(m)' /\ m # n
    OBVIOUS
  <2>1. PICK w \in Thread : m = Mine(w) /\ pc[w] = "spin" /\ Locked(m) /\ ~Completed(m)
    BY DEF Waits
  <2> QED
    BY <1>1, <1>7, <1>8, <1>11, <2>1 DEF Waits
<1>17. LineOK'
  <2>1. \A m, k \in DSMNode : InLine(m)' /\ mem'[m].next = k => Waits(k)'
    BY <1>3, <1>4, <1>15, <1>16, DSMFrame DEF LineOK
  <2>2. \A m, k \in DSMNode : InLine(m)' /\ InLine(k)' /\ mem'[m].next = mem'[k].next /\ mem'[m].next # Null => m = k
    BY <1>4, <1>15, DSMFrame DEF LineOK
  <2> QED
    BY <2>1, <2>2 DEF LineOK
<1>18. ServedOK(t)'
  <2>1. l = "help" => loc'[t].p = Mine(t)'
    BY <1>1, <1>6, <1>7
  <2>2. \A m \in DSMNode : InLine(m)' => mem'[m].next # n
    <3> SUFFICES ASSUME NEW m \in DSMNode, InLine(m)', m # n PROVE mem'[m].next # n
      BY <1>3, <1>4
    <3>1. mem'[m].next = mem[m].next /\ \A k \in DSMNode : mem[m].next = k => Waits(k)
      BY <1>4, <1>15, DSMFrame DEF LineOK
    <3> QED
      BY <1>3, <1>16, <3>1
  <2> QED
    BY <1>7, <1>8, <2>1, <2>2 DEF ServedOK
<1>19. \A u \in Thread \ {t} : ServedOK(u)'
  <2> SUFFICES ASSUME NEW u \in Thread \ {t}, Critical(u) PROVE ServedOK(u)'
    BY <1>8, DSMFrame DEF ServedOK, DSMInside
  <2>1. /\ loc'[u] = loc[u] /\ pc'[u] = pc[u] /\ loc[u].p # n /\ l = "link" /\ ServedOK(u)
        /\ loc[u].p \in DSMNode
    BY <1>6, <1>8, <1>14, DSMFrame, ServedNode
  <2>2. ASSUME pc[u] \in {"help", "release"}
        PROVE  /\ \E w \in Thread : loc'[u].p = Mine(w)' /\ (w = u \/ (pc'[w] = "spin" /\ Locked(Mine(w))'))
               /\ \A m \in DSMNode : InLine(m)' => mem'[m].next # loc'[u].p
    <3>1. PICK w \in Thread : loc[u].p = Mine(w) /\ (w = u \/ (pc[w] = "spin" /\ Locked(Mine(w))))
      BY <2>1, <2>2 DEF ServedOK
    <3>2. w # t
      BY <1>1, <3>1
    <3>3. Locked(Mine(w))' <=> Locked(Mine(w))
      BY <1>0, <1>3, <1>4, <1>7, <3>2, DSMNodes DEF Locked
    <3>4. \A m \in DSMNode : InLine(m)' => mem'[m].next # loc'[u].p
      BY <1>3, <1>4, <1>15, <2>1, <2>2 DEF ServedOK
    <3> QED
      BY <1>7, <1>8, <2>1, <3>1, <3>2, <3>3, <3>4
  <2>3. pc[u] \in {"release", "advance", "close"} => Completed(loc[u].p)'
    BY <1>4, <2>1 DEF ServedOK, Completed
  <2>4. ASSUME pc[u] \in {"advance", "close"}
        PROVE  \E w \in Thread :
                 \/ loc'[u].p = Mine(w)'
                 \/ /\ loc'[u].p = Other(w)'
                    /\ pc'[w] \in {"link", "spin"} /\ Locked(Mine(w))' /\ ~Completed(Mine(w))'
    <3>1. PICK w \in Thread : \/ loc[u].p = Mine(w)
                              \/ /\ loc[u].p = Other(w)
                                 /\ pc[w] \in {"link", "spin"} /\ Locked(Mine(w)) /\ ~Completed(Mine(w))
      BY <2>1, <2>4 DEF ServedOK
    <3>2. CASE w = t
      BY <1>0, <1>1, <1>4, <1>7, <1>8, <2>1, <3>1, <3>2 DEF Locked, Completed
    <3>3. CASE w # t
      <4>1. (Locked(Mine(w))' <=> Locked(Mine(w))) /\ (Completed(Mine(w))' <=> Completed(Mine(w)))
        BY <1>0, <1>3, <1>4, <1>7, <3>3, DSMNodes DEF Locked, Completed
      <4> QED
        BY <1>7, <1>8, <2>1, <3>1, <3>3, <4>1
    <3> QED
      BY <3>2, <3>3
  <2> QED
    BY <2>1, <2>2, <2>3, <2>4 DEF ServedOK
<1>20. \A u, w \in Thread : Chosen(u)' /\ Chosen(w)' => u = w
  BY <1>1, <1>12, <1>13, DSMFrame
<1>21. \A u \in Thread : Chosen(u)' => root'.Tail # Null
  BY <1>3, <1>5
<1>22. \A u \in Thread : pc'[u] = "link" => Locked(Mine(u))' /\ ~Completed(Mine(u))'
  <2> TAKE u \in Thread
  <2>1. CASE u = t
    BY <1>4, <1>7, <2>1 DEF Locked, Completed
  <2>2. CASE u # t
    BY <1>0, <1>3, <1>4, <1>7, <1>8, <2>2, DSMNodes, DSMFrame DEF Locked, Completed
  <2> QED
    BY <2>1, <2>2
<1> QED
  BY <1>10, <1>17, <1>18, <1>19, <1>20, <1>21, <1>22 DEF DSMInv

(* The thread that came behind a node puts its own node after it. *)
LEMMA DSMLink ==
  ASSUME prog \in DSMPrograms, prog' = prog, DSMInv, NEW t \in Thread, DSM!Link(t)
  PROVE  DSMInv'
<1>1. /\ pc' = [pc EXCEPT ![t] = "spin"] /\ pc[t] = "link" /\ UNCHANGED <<loc, root>>
      /\ mem' = [mem EXCEPT ![loc[t].p].next = Mine(t)]
  BY DEF DSM!Link, DSM!Go, DSM!pred, DSM!Mine, Mine
<1>2. DSMTypes /\ loc[t].p \in DSMNode /\ Mine(t) \in DSMNode /\ Null \notin DSMNode
  BY <1>1, DSMFrame, DSMNodes DEF DSMTypes
<1>3. /\ DOMAIN mem' = DSMNode
      /\ \A m \in DSMNode : /\ DOMAIN mem'[m] = DOMAIN mem[m]
                            /\ mem'[m].locked = mem[m].locked /\ mem'[m].completed = mem[m].completed
      /\ \A m \in DSMNode \ {loc[t].p} : mem'[m].next = mem[m].next
      /\ mem'[loc[t].p].next = Mine(t)
  BY <1>1, <1>2 DEF DSMTypes
<1>4. \A u \in Thread : Mine(u)' = Mine(u) /\ Other(u)' = Other(u)
  BY <1>1 DEF Mine, Other
<1>5. pc'[t] = "spin" /\ (\A u \in Thread \ {t} : pc'[u] = pc[u]) /\ pc' \in [Thread -> DSMLabel]
  BY <1>1, <1>2 DEF DSMTypes, DSMLabel
<1>6. \A u \in Thread : Critical(u)' <=> Critical(u)
  BY <1>1, <1>5, DSMFrame DEF DSMInside
<1>7. DSMTypes'
  BY <1>1, <1>2, <1>3, <1>5, <1>6 DEF DSMTypes
<1>8. Locked(Mine(t)) /\ ~Completed(Mine(t))
  BY <1>1, DSMFrame
<1>9. \A u \in Thread : Chosen(u)' <=> Chosen(u)
  BY <1>1, <1>2, <1>3, <1>4, <1>5, <1>6, DSMNodes DEF Chosen, Locked, Completed
<1>10. \A m \in DSMNode : InLine(m)' <=> InLine(m)
  <2>1. \A m \in DSMNode : \A w \in Thread :
          m = Mine(w)' /\ pc'[w] \in {"link", "spin"} /\ ~Completed(m)'
            <=> m = Mine(w) /\ pc[w] \in {"link", "spin"} /\ ~Completed(m)
    BY <1>1, <1>3, <1>4, <1>5 DEF Completed
  <2> QED
    BY <1>1, <1>6, <2>1 DEF InLine, Inside
<1>11. \A m \in DSMNode : Waits(m) => Waits(m)'
  BY <1>1, <1>3, <1>4, <1>5 DEF Waits, Locked, Completed
<1>12. Waits(Mine(t))' /\ ~Waits(Mine(t))
  BY <1>1, <1>2, <1>3, <1>4, <1>5, <1>8, DSMNodes DEF Waits, Locked, Completed
<1>13. \A m \in DSMNode : InLine(m) => mem[m].next # Mine(t)
  BY <1>2, <1>12, DSMFrame DEF LineOK
<1>14. \A m, k \in DSMNode : InLine(m)' /\ mem'[m].next = k => Waits(k)'
  <2> SUFFICES ASSUME NEW m \in DSMNode, NEW k \in DSMNode, InLine(m), mem'[m].next = k PROVE Waits(k)'
    BY <1>10
  <2>1. CASE m = loc[t].p
    BY <1>1, <1>2, <1>3, <1>4, <1>5, <1>8, <2>1 DEF Waits, Locked, Completed
  <2>2. CASE m # loc[t].p
    BY <1>3, <1>11, <2>2, DSMFrame DEF LineOK
  <2> QED
    BY <2>1, <2>2
<1>15. LineOK'
  <2>1. \A m, k \in DSMNode : InLine(m)' /\ InLine(k)' /\ mem'[m].next = mem'[k].next /\ mem'[m].next # Null => m = k
    BY <1>3, <1>10, <1>13, DSMFrame DEF LineOK
  <2> QED
    BY <1>14, <2>1 DEF LineOK
<1>16. \A u \in Thread : ServedOK(u)'
  <2> SUFFICES ASSUME NEW u \in Thread, Critical(u) PROVE ServedOK(u)'
    BY <1>1, <1>5, DSMFrame DEF ServedOK, DSMInside
  <2>1. u # t /\ ServedOK(u) /\ loc[u].p \in DSMNode /\ loc'[u].p = loc[u].p /\ pc'[u] = pc[u]
    BY <1>1, <1>5, DSMFrame, ServedNode DEF DSMInside
  <2>2. ASSUME pc[u] \in {"help", "release"}
        PROVE  /\ \E w \in Thread : loc'[u].p = Mine(w)' /\ (w = u \/ (pc'[w] = "spin" /\ Locked(Mine(w))'))
               /\ \A m \in DSMNode : InLine(m)' => mem'[m].next # loc'[u].p
    <3>1. PICK w \in Thread : loc[u].p = Mine(w) /\ (w = u \/ (pc[w] = "spin" /\ Locked(Mine(w))))
      BY <2>1, <2>2 DEF ServedOK
    <3>2. w # t
      BY <1>1, <2>1, <3>1
    <3>3. loc[u].p # Mine(t)
      BY <1>2, <3>1, <3>2, DSMNodes
    <3>4. \A m \in DSMNode : InLine(m) => mem[m].next # loc[u].p
      BY <2>1, <2>2 DEF ServedOK
    <3> QED
      BY <1>2, <1>3, <1>4, <1>5, <1>10, <2>1, <3>1, <3>2, <3>3, <3>4, DSMNodes DEF Locked
  <2>3. pc[u] \in {"release", "advance", "close"} => Completed(loc[u].p)'
    BY <1>3, <2>1 DEF ServedOK, Completed
  <2>4. ASSUME pc[u] \in {"advance", "close"}
        PROVE  \E w \in Thread :
                 \/ loc'[u].p = Mine(w)'
                 \/ /\ loc'[u].p = Other(w)'
                    /\ pc'[w] \in {"link", "spin"} /\ Locked(Mine(w))' /\ ~Completed(Mine(w))'
    <3>1. PICK w \in Thread : \/ loc[u].p = Mine(w)
                              \/ /\ loc[u].p = Other(w)
                                 /\ pc[w] \in {"link", "spin"} /\ Locked(Mine(w)) /\ ~Completed(Mine(w))
      BY <2>1, <2>4 DEF ServedOK
    <3> QED
      BY <1>1, <1>2, <1>3, <1>4, <1>5, <2>1, <3>1, DSMNodes DEF Locked, Completed
  <2> QED
    BY <2>1, <2>2, <2>3, <2>4 DEF ServedOK
<1>17. \A u \in Thread : pc'[u] = "link" => Locked(Mine(u))' /\ ~Completed(Mine(u))'
  BY <1>2, <1>3, <1>4, <1>5, DSMNodes, DSMFrame DEF Locked, Completed
<1> QED
  BY <1>1, <1>7, <1>9, <1>15, <1>16, <1>17, DSMFrame DEF DSMInv

(* A thread whose node was unlocked has been served, or is the combiner. *)
LEMMA DSMSpin ==
  ASSUME prog \in DSMPrograms, prog' = prog, DSMInv, NEW t \in Thread, DSM!Spin(t)
  PROVE  DSMInv'
<1>1. PICK l \in {"return", "help"} :
        /\ pc' = [pc EXCEPT ![t] = l] /\ pc[t] = "spin" /\ UNCHANGED <<mem, root>>
        /\ ~Locked(Mine(t)) /\ (Completed(Mine(t)) <=> l = "return")
        /\ loc' = [loc EXCEPT ![t].p = Mine(t), ![t].counter = 0]
  BY DEF DSM!Spin, DSM!Go, DSM!Mine, Mine, Locked, Completed
<1>2. DSMTypes /\ Mine(t) \in DSMNode /\ Null \notin DSMNode
  BY DSMFrame, DSMNodes
<1>3. /\ DOMAIN loc' = Thread /\ \A u \in Thread \ {t} : loc'[u] = loc[u]
      /\ DOMAIN loc'[t] = DOMAIN loc[t] /\ loc'[t].toggle = loc[t].toggle /\ loc'[t].p = Mine(t)
  BY <1>1, <1>2 DEF DSMTypes
<1>4. \A u \in Thread : Mine(u)' = Mine(u) /\ Other(u)' = Other(u)
  BY <1>3 DEF Mine, Other
<1>5. pc'[t] = l /\ (\A u \in Thread \ {t} : pc'[u] = pc[u]) /\ pc' \in [Thread -> DSMLabel]
  BY <1>1, <1>2 DEF DSMTypes, DSMLabel
<1>6. (\A u \in Thread \ {t} : Critical(u)' <=> Critical(u)) /\ (Critical(t)' <=> l = "help")
  BY <1>1, <1>5, DSMFrame DEF DSMInside
<1>7. DSMTypes'
  <2>1. \A u \in Thread : DOMAIN loc'[u] = {"toggle", "p", "counter"} /\ loc'[u].toggle \in {0, 1}
    BY <1>2, <1>3 DEF DSMTypes
  <2>2. \A u \in Thread : pc'[u] = "link" \/ Critical(u)' => loc'[u].p \in DSMNode
    BY <1>2, <1>3, <1>5, <1>6 DEF DSMTypes
  <2> QED
    BY <1>1, <1>2, <1>3, <1>5, <2>1, <2>2 DEF DSMTypes
<1>8. \A u \in Thread : Chosen(u)' <=> Chosen(u)
  <2>1. \A u \in Thread \ {t} : Chosen(u)' <=> Chosen(u)
    BY <1>1, <1>4, <1>5, <1>6 DEF Chosen, Locked, Completed
  <2>2. Chosen(t)' <=> Chosen(t)
    BY <1>1, <1>4, <1>5, <1>6, DSMFrame DEF Chosen, DSMInside
  <2> QED
    BY <2>1, <2>2
<1>9. l = "help" => Chosen(t) /\ \A u \in Thread \ {t} : ~Critical(u)
  BY <1>1, DSMFrame DEF Chosen
<1>10. \A m \in DSMNode : InLine(m)' => InLine(m)
  <2> SUFFICES ASSUME NEW m \in DSMNode, InLine(m)' PROVE InLine(m)
    OBVIOUS
  <2>1. CASE \E w \in Thread : m = Mine(w)' /\ pc'[w] \in {"link", "spin"} /\ ~Completed(m)'
    BY <1>1, <1>4, <1>5, <2>1 DEF InLine, Completed
  <2>2. CASE \E u \in Inside' : m = loc'[u].p
    <3>1. PICK u \in Thread : Critical(u)' /\ m = loc'[u].p
      BY <2>2 DEF Inside
    <3>2. CASE u = t
      BY <1>1, <1>3, <1>6, <3>1, <3>2 DEF InLine
    <3>3. CASE u # t
      BY <1>3, <1>6, <3>1, <3>3 DEF InLine, Inside
    <3> QED
      BY <3>2, <3>3
  <2> QED
    BY <2>1, <2>2 DEF InLine
<1>11. \A m \in DSMNode : Waits(m) => Waits(m)' /\ m # Mine(t)
  BY <1>1, <1>2, <1>4, <1>5, DSMNodes DEF Waits, Locked, Completed
<1>12. LineOK'
  BY <1>1, <1>10, <1>11, DSMFrame DEF LineOK
<1>13. ServedOK(t)'
  <2>1. \A m \in DSMNode : InLine(m)' => mem'[m].next # Mine(t)
    BY <1>1, <1>2, <1>10, <1>11, DSMFrame DEF LineOK
  <2>2. loc'[t].p = Mine(t)'
    BY <1>3, <1>4
  <2> QED
    BY <1>3, <1>5, <2>1, <2>2 DEF ServedOK
<1>14. \A u \in Thread \ {t} : ServedOK(u)'
  <2> SUFFICES ASSUME NEW u \in Thread \ {t}, Critical(u) PROVE ServedOK(u)'
    BY <1>5, DSMFrame DEF ServedOK, DSMInside
  <2>1. ServedOK(u) /\ loc'[u].p = loc[u].p /\ pc'[u] = pc[u]
    BY <1>3, <1>5, DSMFrame
  <2>2. ASSUME pc[u] \in {"help", "release"}
        PROVE  /\ \E w \in Thread : loc'[u].p = Mine(w)' /\ (w = u \/ (pc'[w] = "spin" /\ Locked(Mine(w))'))
               /\ \A m \in DSMNode : InLine(m)' => mem'[m].next # loc'[u].p
    <3>1. PICK w \in Thread : loc[u].p = Mine(w) /\ (w = u \/ (pc[w] = "spin" /\ Locked(Mine(w))))
      BY <2>1, <2>2 DEF ServedOK
    <3>2. w # t
      BY <1>1, <3>1
    <3>3. \A m \in DSMNode : InLine(m) => mem[m].next # loc[u].p
      BY <2>1, <2>2 DEF ServedOK
    <3> QED
      BY <1>1, <1>4, <1>5, <1>10, <2>1, <3>1, <3>2, <3>3 DEF Locked
  <2>3. pc[u] \in {"release", "advance", "close"} => Completed(loc[u].p)'
    BY <1>1, <2>1 DEF ServedOK, Completed
  <2>4. ASSUME pc[u] \in {"advance", "close"}
        PROVE  \E w \in Thread :
                 \/ loc'[u].p = Mine(w)'
                 \/ /\ loc'[u].p = Other(w)'
                    /\ pc'[w] \in {"link", "spin"} /\ Locked(Mine(w))' /\ ~Completed(Mine(w))'
    <3>1. PICK w \in Thread : \/ loc[u].p = Mine(w)
                              \/ /\ loc[u].p = Other(w)
                                 /\ pc[w] \in {"link", "spin"} /\ Locked(Mine(w)) /\ ~Completed(Mine(w))
      BY <2>1, <2>4 DEF ServedOK
    <3> QED
      BY <1>1, <1>4, <1>5, <2>1, <3>1 DEF Locked, Completed
  <2> QED
    BY <2>1, <2>2, <2>3, <2>4 DEF ServedOK
<1>15. \A u \in Thread : pc'[u] = "link" => Locked(Mine(u))' /\ ~Completed(Mine(u))'
  BY <1>1, <1>4, <1>5, DSMFrame DEF Locked, Completed
<1> QED
  BY <1>1, <1>7, <1>8, <1>12, <1>13, <1>14, <1>15, DSMFrame DEF DSMInv

(* The combiner completes a node: no list leads to it any more. *)
LEMMA DSMHelp ==
  ASSUME prog \in DSMPrograms, prog' = prog, DSMInv, NEW t \in Thread, DSM!Help(t)
  PROVE  DSMInv'
<1>1. PICK x :
        /\ pc' = [pc EXCEPT ![t] = "release"] /\ pc[t] = "help" /\ UNCHANGED root
        /\ mem' = [mem EXCEPT ![loc[t].p].ret = x, ![loc[t].p].completed = TRUE]
        /\ loc' = [loc EXCEPT ![t].counter = @ + 1]
  BY DEF DSM!Help, DSM!Go
<1>2. DSMTypes /\ Critical(t) /\ loc[t].p \in DSMNode /\ ServedOK(t) /\ \A u \in Thread \ {t} : ~Critical(u)
  BY <1>1, DSMFrame, ServedNode DEF DSMInside
<1>3. /\ DOMAIN mem' = DSMNode
      /\ \A m \in DSMNode : /\ DOMAIN mem'[m] = DOMAIN mem[m]
                            /\ mem'[m].locked = mem[m].locked /\ mem'[m].next = mem[m].next
      /\ \A m \in DSMNode \ {loc[t].p} : mem'[m].completed = mem[m].completed
      /\ mem'[loc[t].p].completed = TRUE
  BY <1>1, <1>2 DEF DSMTypes
<1>4. /\ DOMAIN loc' = Thread
      /\ \A u \in Thread : DOMAIN loc'[u] = DOMAIN loc[u] /\ loc'[u].toggle = loc[u].toggle /\ loc'[u].p = loc[u].p
  BY <1>1, <1>2 DEF DSMTypes
<1>5. \A u \in Thread : Mine(u)' = Mine(u) /\ Other(u)' = Other(u)
  BY <1>4 DEF Mine, Other
<1>6. pc'[t] = "release" /\ (\A u \in Thread \ {t} : pc'[u] = pc[u]) /\ pc' \in [Thread -> DSMLabel]
  BY <1>1, <1>2 DEF DSMTypes, DSMLabel
<1>7. \A u \in Thread : Critical(u)' <=> Critical(u)
  BY <1>1, <1>6, DSMFrame DEF DSMInside
<1>8. DSMTypes'
  BY <1>1, <1>2, <1>3, <1>4, <1>6, <1>7 DEF DSMTypes
<1>9. PICK w \in Thread : loc[t].p = Mine(w) /\ (w = t \/ (pc[w] = "spin" /\ Locked(Mine(w))))
  BY <1>1, <1>2 DEF ServedOK
<1>10. \A m \in DSMNode : InLine(m) => mem[m].next # loc[t].p
  BY <1>1, <1>2 DEF ServedOK
<1>11. \A u \in Thread : Chosen(u)' => Chosen(u)
  BY <1>2, <1>3, <1>5, <1>6, <1>7, DSMNodes DEF Chosen, Locked, Completed
<1>12. \A m \in DSMNode : InLine(m)' => InLine(m)
  <2>1. \A m \in DSMNode : \A v \in Thread :
          m = Mine(v)' /\ pc'[v] \in {"link", "spin"} /\ ~Completed(m)'
            => m = Mine(v) /\ pc[v] \in {"link", "spin"} /\ ~Completed(m)
    BY <1>3, <1>5, <1>6 DEF Completed
  <2> QED
    BY <1>4, <1>7, <2>1 DEF InLine, Inside
<1>13. \A m \in DSMNode : Waits(m) /\ m # loc[t].p => Waits(m)'
  BY <1>1, <1>3, <1>5, <1>6 DEF Waits, Locked, Completed
<1>14. LineOK'
  <2>1. \A m, k \in DSMNode : InLine(m)' /\ mem'[m].next = k => Waits(k)'
    BY <1>3, <1>10, <1>12, <1>13, DSMFrame DEF LineOK
  <2>2. \A m, k \in DSMNode : InLine(m)' /\ InLine(k)' /\ mem'[m].next = mem'[k].next /\ mem'[m].next # Null => m = k
    BY <1>3, <1>12, DSMFrame DEF LineOK
  <2> QED
    BY <2>1, <2>2 DEF LineOK
<1>15. \A u \in Thread : ServedOK(u)'
  <2>1. \A u \in Thread \ {t} : ServedOK(u)'
    BY <1>2, <1>6, DSMFrame DEF ServedOK, DSMInside
  <2>2. Completed(loc[t].p)'
    BY <1>2, <1>3, <1>4 DEF Completed
  <2>3. w = t \/ (pc'[w] = "spin" /\ Locked(Mine(w))')
    BY <1>1, <1>2, <1>3, <1>5, <1>6, <1>9, DSMNodes DEF Locked
  <2>4. \A m \in DSMNode : InLine(m)' => mem'[m].next # loc'[t].p
    BY <1>2, <1>3, <1>4, <1>10, <1>12
  <2>5. ServedOK(t)'
    BY <1>4, <1>5, <1>6, <1>9, <2>2, <2>3, <2>4 DEF ServedOK
  <2> QED
    BY <2>1, <2>5
<1>16. \A u \in Thread : pc'[u] = "link" => Locked(Mine(u))' /\ ~Completed(Mine(u))'
  <2> SUFFICES ASSUME NEW u \in Thread, pc'[u] = "link" PROVE Locked(Mine(u))' /\ ~Completed(Mine(u))'
    OBVIOUS
  <2>1. u # t /\ pc[u] = "link" /\ Locked(Mine(u)) /\ ~Completed(Mine(u)) /\ u # w
    BY <1>1, <1>6, <1>9, DSMFrame
  <2> QED
    BY <1>2, <1>3, <1>5, <1>9, <2>1, DSMNodes DEF Locked, Completed
<1> QED
  BY <1>1, <1>8, <1>11, <1>14, <1>15, <1>16, DSMFrame DEF DSMInv

(* The owner of a node that is unlocked was served, and may leave. *)
LEMMA DSMRelease ==
  ASSUME prog \in DSMPrograms, prog' = prog, DSMInv, NEW t \in Thread, DSM!Release(t)
  PROVE  DSMInv'
<1>1. /\ pc' = [pc EXCEPT ![t] = "advance"] /\ pc[t] = "release" /\ UNCHANGED <<loc, root>>
      /\ mem' = [mem EXCEPT ![loc[t].p].locked = FALSE]
  BY DEF DSM!Release, DSM!Go
<1>2. DSMTypes /\ Critical(t) /\ loc[t].p \in DSMNode /\ ServedOK(t) /\ \A u \in Thread \ {t} : ~Critical(u)
  BY <1>1, DSMFrame, ServedNode DEF DSMInside
<1>3. /\ DOMAIN mem' = DSMNode
      /\ \A m \in DSMNode : /\ DOMAIN mem'[m] = DOMAIN mem[m]
                            /\ mem'[m].completed = mem[m].completed /\ mem'[m].next = mem[m].next
      /\ \A m \in DSMNode \ {loc[t].p} : mem'[m].locked = mem[m].locked
      /\ mem'[loc[t].p].locked = FALSE
  BY <1>1, <1>2 DEF DSMTypes
<1>5. \A u \in Thread : Mine(u)' = Mine(u) /\ Other(u)' = Other(u)
  BY <1>1 DEF Mine, Other
<1>6. pc'[t] = "advance" /\ (\A u \in Thread \ {t} : pc'[u] = pc[u]) /\ pc' \in [Thread -> DSMLabel]
  BY <1>1, <1>2 DEF DSMTypes, DSMLabel
<1>7. \A u \in Thread : Critical(u)' <=> Critical(u)
  BY <1>1, <1>6, DSMFrame DEF DSMInside
<1>8. DSMTypes'
  BY <1>1, <1>2, <1>3, <1>6, <1>7 DEF DSMTypes
<1>9. Completed(loc[t].p) /\ \E w \in Thread : loc[t].p = Mine(w)
  BY <1>1, <1>2 DEF ServedOK
<1>10. \A u \in Thread : Chosen(u)' => Chosen(u)
  BY <1>2, <1>3, <1>5, <1>6, <1>7, <1>9, DSMNodes DEF Chosen, Locked, Completed
<1>11. \A m \in DSMNode : InLine(m)' => InLine(m)
  <2>1. \A m \in DSMNode : \A v \in Thread :
          m = Mine(v)' /\ pc'[v] \in {"link", "spin"} /\ ~Completed(m)'
            => m = Mine(v) /\ pc[v] \in {"link", "spin"} /\ ~Completed(m)
    BY <1>3, <1>5, <1>6 DEF Completed
  <2> QED
    BY <1>1, <1>7, <2>1 DEF InLine, Inside
<1>12. \A m \in DSMNode : Waits(m) => Waits(m)'
  BY <1>1, <1>3, <1>5, <1>6, <1>9 DEF Waits, Locked, Completed
<1>13. LineOK'
  BY <1>3, <1>11, <1>12, DSMFrame DEF LineOK
<1>14. \A u \in Thread : ServedOK(u)'
  <2>1. \A u \in Thread \ {t} : ServedOK(u)'
    BY <1>2, <1>6, DSMFrame DEF ServedOK, DSMInside
  <2>2. Completed(loc[t].p)'
    BY <1>1, <1>2, <1>3, <1>9 DEF Completed
  <2>3. \E w \in Thread : loc'[t].p = Mine(w)'
    BY <1>1, <1>5, <1>9
  <2>5. ServedOK(t)'
    BY <1>6, <2>2, <2>3 DEF ServedOK
  <2> QED
    BY <2>1, <2>5
<1>15. \A u \in Thread : pc'[u] = "link" => Locked(Mine(u))' /\ ~Completed(Mine(u))'
  <2> SUFFICES ASSUME NEW u \in Thread, pc'[u] = "link" PROVE Locked(Mine(u))' /\ ~Completed(Mine(u))'
    OBVIOUS
  <2>1. u # t /\ Locked(Mine(u)) /\ ~Completed(Mine(u)) /\ Mine(u) # loc[t].p
    BY <1>6, <1>9, DSMFrame
  <2> QED
    BY <1>2, <1>3, <1>5, <2>1, DSMNodes DEF Locked, Completed
<1> QED
  BY <1>1, <1>8, <1>10, <1>13, <1>14, <1>15, DSMFrame DEF DSMInv

(* The combiner goes to the next node, which is waiting and which no other
   node leads to, or stops. *)
LEMMA DSMAdvance ==
  ASSUME prog \in DSMPrograms, prog' = prog, DSMInv, NEW t \in Thread, DSM!Advance(t)
  PROVE  DSMInv'
<1>1. /\ pc[t] = "advance" /\ UNCHANGED <<mem, root>>
      /\ \/ pc' = [pc EXCEPT ![t] = "close"] /\ loc' = loc
         \/ /\ pc' = [pc EXCEPT ![t] = "help"] /\ loc' = [loc EXCEPT ![t].p = mem[loc[t].p].next]
            /\ mem[loc[t].p].next # Null
  BY DEF DSM!Advance, DSM!Go, DSM!Null, Null
<1>2. DSMTypes /\ Critical(t) /\ loc[t].p \in DSMNode /\ ServedOK(t) /\ InLine(loc[t].p)
      /\ \A u \in Thread \ {t} : ~Critical(u)
  BY <1>1, DSMFrame, ServedNode DEF DSMInside
<1>3. /\ pc'[t] \in {"close", "help"} /\ (\A u \in Thread \ {t} : pc'[u] = pc[u]) /\ pc' \in [Thread -> DSMLabel]
  BY <1>1, <1>2 DEF DSMTypes, DSMLabel
<1>4. /\ DOMAIN loc' = Thread
      /\ \A u \in Thread : DOMAIN loc'[u] = DOMAIN loc[u] /\ loc'[u].toggle = loc[u].toggle
      /\ \A u \in Thread \ {t} : loc'[u] = loc[u]
      /\ pc'[t] = "close" => loc'[t].p = loc[t].p
      /\ pc'[t] = "help" => loc'[t].p = mem[loc[t].p].next /\ loc'[t].p # Null
  BY <1>1, <1>2 DEF DSMTypes
<1>5. \A u \in Thread : Mine(u)' = Mine(u) /\ Other(u)' = Other(u)
  BY <1>4 DEF Mine, Other
<1>6. \A u \in Thread : Critical(u)' <=> Critical(u)
  BY <1>1, <1>3, DSMFrame DEF DSMInside
<1>7. pc'[t] = "help" => loc'[t].p \in DSMNode /\ Waits(loc'[t].p)
  <2> SUFFICES ASSUME pc'[t] = "help" PROVE loc'[t].p \in DSMNode /\ Waits(loc'[t].p)
    OBVIOUS
  <2>1. PICK n \in DSMNode : n = mem[loc[t].p].next
    BY <1>2, <1>4 DEF DSMTypes
  <2>2. Waits(n)
    BY <1>2, <2>1, DSMFrame DEF LineOK
  <2> QED
    BY <1>4, <2>1, <2>2
<1>8. DSMTypes'
  <2>1. \A u \in Thread : pc'[u] = "link" \/ Critical(u)' => loc'[u].p \in DSMNode
    BY <1>1, <1>2, <1>3, <1>4, <1>6, <1>7 DEF DSMTypes
  <2> QED
    BY <1>1, <1>2, <1>3, <1>4, <2>1 DEF DSMTypes
<1>9. \A u \in Thread : Chosen(u)' <=> Chosen(u)
  BY <1>1, <1>2, <1>3, <1>5, <1>6, DSMFrame DEF Chosen, Locked, Completed
<1>10. \A m \in DSMNode : Waits(m) => Waits(m)'
  BY <1>1, <1>3, <1>5 DEF Waits, Locked, Completed
<1>11. \A m \in DSMNode : InLine(m)' => InLine(m)
  <2> SUFFICES ASSUME NEW m \in DSMNode, InLine(m)' PROVE InLine(m)
    OBVIOUS
  <2>1. CASE \E w \in Thread : m = Mine(w)' /\ pc'[w] \in {"link", "spin"} /\ ~Completed(m)'
    BY <1>1, <1>3, <1>5, <2>1 DEF InLine, Completed
  <2>2. CASE \E u \in Inside' : m = loc'[u].p
    <3>1. m = loc'[t].p
      BY <1>2, <1>6, <2>2 DEF Inside
    <3>2. CASE pc'[t] = "close"
      BY <1>2, <1>4, <3>1, <3>2
    <3>3. CASE pc'[t] = "help"
      BY <1>7, <3>1, <3>3 DEF Waits, InLine
    <3> QED
      BY <1>3, <3>2, <3>3
  <2> QED
    BY <2>1, <2>2 DEF InLine
<1>12. LineOK'
  BY <1>1, <1>10, <1>11, DSMFrame DEF LineOK
<1>13. ServedOK(t)'
  <2>1. CASE pc'[t] = "close"
    <3>1. Completed(loc[t].p)'
      BY <1>1, <1>2, <1>4, <2>1 DEF ServedOK, Completed
    <3>2. PICK w \in Thread : \/ loc[t].p = Mine(w)
                              \/ /\ loc[t].p = Other(w)
                                 /\ pc[w] \in {"link", "spin"} /\ Locked(Mine(w)) /\ ~Completed(Mine(w))
      BY <1>1, <1>2 DEF ServedOK
    <3>3. \/ loc'[t].p = Mine(w)'
          \/ /\ loc'[t].p = Other(w)'
             /\ pc'[w] \in {"link", "spin"} /\ Locked(Mine(w))' /\ ~Completed(Mine(w))'
      BY <1>1, <1>3, <1>4, <1>5, <2>1, <3>2 DEF Locked, Completed
    <3> QED
      BY <2>1, <3>1, <3>3 DEF ServedOK
  <2>2. CASE pc'[t] = "help"
    <3>1. PICK w \in Thread : loc'[t].p = Mine(w) /\ pc[w] = "spin" /\ Locked(Mine(w)) /\ ~Completed(Mine(w))
      BY <1>7, <2>2 DEF Waits
    <3>2. loc'[t].p = Mine(w)' /\ pc'[w] = "spin" /\ Locked(Mine(w))'
      BY <1>1, <1>3, <1>5, <3>1 DEF Locked
    <3>3. Completed(loc[t].p)
      BY <1>1, <1>2 DEF ServedOK
    <3>4. \A m \in DSMNode : InLine(m)' => mem'[m].next # loc'[t].p
      <4>1. PICK k \in DSMNode : k = loc[t].p
        BY <1>2
      <4>2. ~InLine(k)'
        <5>1. Completed(k)'
          BY <1>1, <3>3, <4>1 DEF Completed
        <5>2. loc'[t].p # k
          BY <3>1, <3>3, <4>1
        <5> QED
          BY <1>2, <1>6, <5>1, <5>2 DEF InLine, Inside
      <4> QED
        BY <1>1, <1>2, <1>4, <1>11, <2>2, <4>1, <4>2, DSMFrame DEF LineOK
    <3> QED
      BY <2>2, <3>2, <3>4 DEF ServedOK
  <2> QED
    BY <1>3, <2>1, <2>2
<1>14. \A u \in Thread : ServedOK(u)'
  BY <1>2, <1>3, <1>13, DSMFrame DEF ServedOK, DSMInside
<1>15. \A u \in Thread : pc'[u] = "link" => Locked(Mine(u))' /\ ~Completed(Mine(u))'
  BY <1>1, <1>3, <1>5, DSMFrame DEF Locked, Completed
<1> QED
  BY <1>1, <1>8, <1>9, <1>12, <1>14, <1>15, DSMFrame DEF DSMInv

(* Nobody is behind the combiner: the next thread to come is the combiner. *)
LEMMA DSMClose ==
  ASSUME prog \in DSMPrograms, prog' = prog, DSMInv, NEW t \in Thread, DSM!Close(t)
  PROVE  DSMInv'
<1>1. /\ pc' = [pc EXCEPT ![t] = "return"] /\ pc[t] = "close" /\ UNCHANGED <<loc, mem>>
      /\ root' = [root EXCEPT !.Tail = Null]
  BY DEF DSM!Close, DSM!Go, DSM!Null, Null
<1>2. DSMTypes /\ Critical(t) /\ \A u \in Thread \ {t} : ~Chosen(u) /\ ~Critical(u)
  BY <1>1, DSMFrame DEF DSMInside
<1>3. pc'[t] = "return" /\ (\A u \in Thread \ {t} : pc'[u] = pc[u]) /\ pc' \in [Thread -> DSMLabel]
  BY <1>1, <1>2 DEF DSMTypes, DSMLabel
<1>4. \A u \in Thread : ~Critical(u)'
  BY <1>2, <1>3, DSMFrame DEF DSMInside
<1>5. \A u \in Thread : Mine(u)' = Mine(u) /\ Other(u)' = Other(u)
  BY <1>1 DEF Mine, Other
<1>6. DSMTypes'
  BY <1>1, <1>2, <1>3, <1>4 DEF DSMTypes
<1>7. \A u \in Thread : ~Chosen(u)'
  BY <1>1, <1>2, <1>3, <1>4, <1>5 DEF Chosen, Locked, Completed
<1>8. \A m \in DSMNode : (InLine(m)' => InLine(m)) /\ (Waits(m) => Waits(m)')
  BY <1>1, <1>3, <1>4, <1>5 DEF InLine, Inside, Waits, Locked, Completed
<1>9. LineOK'
  BY <1>1, <1>8, DSMFrame DEF LineOK
<1>10. \A u \in Thread : ServedOK(u)'
  BY <1>2, <1>3, DSMFrame DEF ServedOK, DSMInside
<1>11. \A u \in Thread : pc'[u] = "link" => Locked(Mine(u))' /\ ~Completed(Mine(u))'
  BY <1>1, <1>3, <1>5, DSMFrame DEF Locked, Completed
<1> QED
  BY <1>6, <1>7, <1>9, <1>10, <1>11 DEF DSMInv

(* The owner of the next node, and no one else, is the combiner now. *)
LEMMA DSMHandOver ==
  ASSUME prog \in DSMPrograms, prog' = prog, DSMInv, NEW t \in Thread, DSM!HandOver(t)
  PROVE  DSMInv'
<1>1. /\ pc' = [pc EXCEPT ![t] = "return"] /\ pc[t] = "close" /\ UNCHANGED <<loc, root>>
      /\ mem[loc[t].p].next # Null
      /\ mem' = [mem EXCEPT ![mem[loc[t].p].next].locked = FALSE]
  BY DEF DSM!HandOver, DSM!Go, DSM!Null, Null
<1>2. DSMTypes /\ Critical(t) /\ loc[t].p \in DSMNode /\ InLine(loc[t].p) /\ ServedOK(t)
      /\ \A u \in Thread \ {t} : ~Chosen(u) /\ ~Critical(u)
  BY <1>1, DSMFrame, ServedNode DEF DSMInside
<1>3. PICK n \in DSMNode : n = mem[loc[t].p].next /\ Waits(n)
  <2>1. PICK n \in DSMNode : n = mem[loc[t].p].next
    BY <1>1, <1>2 DEF DSMTypes
  <2> QED
    BY <1>2, <2>1, DSMFrame DEF LineOK
<1>4. /\ DOMAIN mem' = DSMNode
      /\ \A m \in DSMNode : /\ DOMAIN mem'[m] = DOMAIN mem[m]
                            /\ mem'[m].completed = mem[m].completed /\ mem'[m].next = mem[m].next
      /\ \A m \in DSMNode \ {n} : mem'[m].locked = mem[m].locked
      /\ mem'[n].locked = FALSE
  BY <1>1, <1>2, <1>3 DEF DSMTypes
<1>5. pc'[t] = "return" /\ (\A u \in Thread \ {t} : pc'[u] = pc[u]) /\ pc' \in [Thread -> DSMLabel]
  BY <1>1, <1>2 DEF DSMTypes, DSMLabel
<1>6. \A u \in Thread : ~Critical(u)'
  BY <1>2, <1>5, DSMFrame DEF DSMInside
<1>7. \A u \in Thread : Mine(u)' = Mine(u) /\ Other(u)' = Other(u)
  BY <1>1 DEF Mine, Other
<1>8. DSMTypes'
  BY <1>1, <1>2, <1>4, <1>5, <1>6 DEF DSMTypes
<1>9. \A u \in Thread : Chosen(u)' => Mine(u) = n
  BY <1>2, <1>4, <1>5, <1>6, <1>7, DSMNodes DEF Chosen, Locked, Completed
<1>10. \A u, w \in Thread : Chosen(u)' /\ Chosen(w)' => u = w
  BY <1>2, <1>9, DSMNodes
<1>11. \A m \in DSMNode : InLine(m)' => InLine(m) /\ m # loc[t].p
  <2> SUFFICES ASSUME NEW m \in DSMNode, InLine(m)' PROVE InLine(m) /\ m # loc[t].p
    OBVIOUS
  <2>1. PICK w \in Thread : m = Mine(w) /\ pc[w] \in {"link", "spin"} /\ ~Completed(m)
    BY <1>4, <1>5, <1>6, <1>7 DEF InLine, Inside, Completed
  <2>2. Completed(loc[t].p)
    BY <1>1, <1>2 DEF ServedOK
  <2> QED
    BY <2>1, <2>2 DEF InLine
<1>12. \A m \in DSMNode : Waits(m) /\ m # n => Waits(m)'
  <2> SUFFICES ASSUME NEW m \in DSMNode, Waits(m), m # n PROVE Waits(m)'
    OBVIOUS
  <2>1. PICK w \in Thread : m = Mine(w) /\ pc[w] = "spin" /\ mem[m].locked /\ ~mem[m].completed
    BY DEF Waits, Locked, Completed
  <2>2. m = Mine(w)' /\ pc'[w] = "spin" /\ mem'[m].locked /\ ~mem'[m].completed
    BY <1>1, <1>4, <1>5, <1>7, <2>1
  <2> QED
    BY <2>2 DEF Waits, Locked, Completed
<1>13. \A m \in DSMNode : InLine(m)' => mem[m].next # n
  BY <1>1, <1>2, <1>3, <1>11, DSMFrame DEF LineOK
<1>14. LineOK'
  BY <1>4, <1>11, <1>12, <1>13, DSMFrame DEF LineOK
<1>15. \A u \in Thread : ServedOK(u)'
  BY <1>2, <1>5, DSMFrame DEF ServedOK, DSMInside
<1>16. \A u \in Thread : pc'[u] = "link" => Locked(Mine(u))' /\ ~Completed(Mine(u))'
  <2> SUFFICES ASSUME NEW u \in Thread, pc'[u] = "link" PROVE Locked(Mine(u))' /\ ~Completed(Mine(u))'
    OBVIOUS
  <2>1. Locked(Mine(u)) /\ ~Completed(Mine(u)) /\ pc[u] = "link"
    BY <1>5, DSMFrame
  <2>2. Mine(u) # n
    BY <1>2, <1>3, <2>1, DSMNodes DEF Waits
  <2> QED
    BY <1>2, <1>4, <1>7, <2>1, <2>2, DSMNodes DEF Locked, Completed
<1>17. \A u \in Thread : Chosen(u)' => root'.Tail # Null
  BY <1>1, <1>2, DSMFrame
<1> QED
  BY <1>8, <1>10, <1>14, <1>15, <1>16, <1>17 DEF DSMInv

(* A return leaves the nodes as they are. *)
LEMMA DSMReturn ==
  ASSUME prog \in DSMPrograms, prog' = prog, DSMInv, NEW t \in Thread, DSM!ReturnResult(t)
  PROVE  DSMInv'
<1>1. /\ pc' = [pc EXCEPT ![t] = "idle"] /\ pc[t] = "return" /\ UNCHANGED <<mem, root>>
      /\ loc' = [loc EXCEPT ![t].p = Null, ![t].counter = 0]
  BY DEF DSM!ReturnResult, DSM!Return, DSM!Go, DSM!Null, Null
<1>2. DSMTypes
  BY DSMFrame
<1>3. pc'[t] = "idle" /\ (\A u \in Thread \ {t} : pc'[u] = pc[u]) /\ pc' \in [Thread -> DSMLabel]
  BY <1>1, <1>2 DEF DSMTypes, DSMLabel
<1>4. /\ DOMAIN loc' = Thread
      /\ \A u \in Thread : DOMAIN loc'[u] = DOMAIN loc[u] /\ loc'[u].toggle = loc[u].toggle
      /\ \A u \in Thread \ {t} : loc'[u] = loc[u]
  BY <1>1, <1>2 DEF DSMTypes
<1>5. \A u \in Thread : Mine(u)' = Mine(u) /\ Other(u)' = Other(u)
  BY <1>4 DEF Mine, Other
<1>6. (\A u \in Thread : Critical(u)' <=> Critical(u)) /\ ~Critical(t)
  BY <1>1, <1>3, DSMFrame DEF DSMInside
<1>7. DSMTypes'
  BY <1>1, <1>2, <1>3, <1>4, <1>6 DEF DSMTypes
<1>8. \A u \in Thread : Chosen(u)' <=> Chosen(u)
  BY <1>1, <1>3, <1>5, <1>6 DEF Chosen, Locked, Completed
<1>9. \A m \in DSMNode : (InLine(m)' => InLine(m)) /\ (Waits(m) => Waits(m)')
  BY <1>1, <1>3, <1>4, <1>5, <1>6 DEF InLine, Inside, Waits, Locked, Completed
<1>10. LineOK'
  BY <1>1, <1>9, DSMFrame DEF LineOK
<1>11. \A u \in Thread : ServedOK(u)'
  <2> SUFFICES ASSUME NEW u \in Thread, Critical(u) PROVE ServedOK(u)'
    BY <1>1, <1>3, DSMFrame DEF ServedOK, DSMInside
  <2>1. u # t /\ ServedOK(u) /\ loc'[u].p = loc[u].p /\ pc'[u] = pc[u]
    BY <1>3, <1>4, <1>6, DSMFrame
  <2>2. pc[u] \in {"help", "release"} => \A m \in DSMNode : InLine(m)' => mem'[m].next # loc'[u].p
    BY <1>1, <1>9, <2>1 DEF ServedOK
  <2>3. pc[u] \in {"help", "release"} =>
           \E w \in Thread : loc'[u].p = Mine(w)' /\ (w = u \/ (pc'[w] = "spin" /\ Locked(Mine(w))'))
    BY <1>1, <1>3, <1>5, <2>1 DEF ServedOK, Locked
  <2>4. pc[u] \in {"release", "advance", "close"} => Completed(loc[u].p)'
    BY <1>1, <2>1 DEF ServedOK, Completed
  <2>5. pc[u] \in {"advance", "close"} =>
          \E w \in Thread :
            \/ loc'[u].p = Mine(w)'
            \/ /\ loc'[u].p = Other(w)'
               /\ pc'[w] \in {"link", "spin"} /\ Locked(Mine(w))' /\ ~Completed(Mine(w))'
    BY <1>1, <1>3, <1>5, <2>1 DEF ServedOK, Locked, Completed
  <2> QED
    BY <2>1, <2>2, <2>3, <2>4, <2>5 DEF ServedOK
<1>12. \A u \in Thread : pc'[u] = "link" => Locked(Mine(u))' /\ ~Completed(Mine(u))'
  BY <1>1, <1>3, <1>5, DSMFrame DEF Locked, Completed
<1> QED
  BY <1>1, <1>7, <1>8, <1>10, <1>11, <1>12, DSMFrame DEF DSMInv

(* Every step of the two programs is one of those above. *)
LEMMA DSMKeeps ==
  ASSUME prog \in DSMPrograms, prog' = prog, DSMInv, NEW t \in Thread, DSM!DSMStep(t)
  PROVE  DSMInv'
BY DSMAnnounce, DSMLink, DSMSpin, DSMHelp, DSMRelease, DSMAdvance, DSMClose, DSMHandOver, DSMReturn DEF DSM!DSMStep

-----------------------------------------------------------------------------
(* ccuobject and ccstack *)


(* A thread uses its nodes in turn. *)
LEMMA Rotated ==
  ASSUME CCTypes, NEW t \in Thread, NEW c \in CCNode
  PROVE  /\ Head(spare(t)) = spare(t)[1] /\ spare(t)[1] \in CCNode
         /\ \E s \in [1..Spares -> CCNode] :
              s = Append(Tail(spare(t)), c) /\ s[Spares] = c /\ (Spares = 2 => s[1] = spare(t)[2])
<1>1. PICK K \in {1, 2} : K = Spares
  BY DEF Spares
<1>2. PICK q \in [1..K -> CCNode] : q = spare(t)
  BY <1>1 DEF CCTypes
<1>3. q \in Seq(CCNode) /\ Len(q) = K
  BY LenProperties, SeqDef
<1>4. Tail(q) \in Seq(CCNode) /\ Len(Tail(q)) = K - 1 /\ (K = 2 => Tail(q)[1] = q[2])
  BY <1>3
<1>5. PICK s \in Seq(CCNode) : s = Append(Tail(q), c) /\ Len(s) = K
  <2>1. Append(Tail(q), c) \in Seq(CCNode) /\ Len(Append(Tail(q), c)) = K
    BY <1>3, <1>4
  <2> QED
    BY <2>1, Zenon
<1>6. s[K] = c /\ (K = 2 => s[1] = q[2])
  BY <1>3, <1>4, <1>5
<1>7. s \in [1..K -> CCNode]
  BY <1>5, LenProperties
<1>8. Head(q) = q[1] /\ q[1] \in CCNode
  BY <1>3
<1>9. s \in [1..Spares -> CCNode] /\ s[Spares] = c /\ (Spares = 2 => s[1] = q[2])
  BY <1>1, <1>6, <1>7
<1>10. s = Append(Tail(spare(t)), c) /\ (Spares = 2 => s[1] = spare(t)[2])
  BY <1>2, <1>5, <1>9
<1> QED
  BY <1>2, <1>8, <1>9, <1>10

(* What every step has in common. *)
LEMMA CCFrame ==
  ASSUME prog \in CCPrograms, prog' = prog, CCInv
  PROVE  /\ CCTypes /\ NodesOK /\ ChainOK
         /\ Spares \in {1, 2} /\ Spares' = Spares /\ CCNode' = CCNode /\ Clusters' = Clusters
         /\ Null \notin CCNode /\ \A c \in Clusters : Last(c) \in CCNode
         /\ \A u \in Thread : cluster(u) \in Clusters
         /\ \A u \in Thread : Combining(u) => Elected(u)
         /\ \A u, w \in Thread : Elected(u) /\ Elected(w) /\ cluster(u) = cluster(w) => u = w
         /\ \A u \in Thread : Elected(u) => Locked(Last(cluster(u)))
         /\ \A u \in Thread : CombinerOK(u)
         /\ \A u \in Thread : pc[u] \in CCLabel
<1>1. Spares \in {1, 2} /\ Spares' = Spares /\ CCNode' = CCNode /\ Clusters' = Clusters
  BY DEF Spares, CCNode, Clusters
<1>2. \A c \in Clusters : Last(c) \in CCNode
  BY DEF CCInv, CCTypes, Last
<1>3. Null \notin CCNode
  BY SynchAssumption DEF CCNode, Null
<1>4. \A u \in Thread : Combining(u) => Elected(u)
  BY DEF Elected
<1>5. \A u \in Thread : pc[u] \in CCLabel /\ cluster(u) \in Clusters
  BY DEF CCInv, CCTypes
<1> QED
  BY <1>1, <1>2, <1>3, <1>4, <1>5 DEF CCInv

(* The node of a thread that runs is its own, and not the last one of a list;
   a node is ahead in one list. *)
LEMMA CCCur ==
  ASSUME prog \in CCPrograms, prog' = prog, CCInv
  PROVE  /\ \A u \in Thread : pc[u] # "idle" => cur(u) \in CCNode /\ \A c \in Clusters : cur(u) # Last(c)
         /\ \A u, w \in Thread : pc[u] # "idle" /\ pc[w] # "idle" /\ cur(u) = cur(w) => u = w
         /\ \A n : \A c \in Clusters : Ahead(n, c) => n \in CCNode
         /\ \A u \in Thread : Queued(u) \/ Combining(u) => pc[u] # "idle"
<1>1. Spares \in {1, 2}
  BY CCFrame
<1>2. \A u \in Thread : Queued(u) \/ Combining(u) => pc[u] # "idle"
  BY DEF Queued, Combining, CCInside
<1>3. \A u \in Thread : pc[u] # "idle" => cur(u) \in CCNode /\ \A c \in Clusters : cur(u) # Last(c)
  BY <1>1, CCFrame DEF NodesOK, CCTypes
<1>4. \A u, w \in Thread : pc[u] # "idle" /\ pc[w] # "idle" /\ cur(u) = cur(w) => u = w
  BY <1>1, CCFrame DEF NodesOK
<1>5. \A n : \A c \in Clusters : Ahead(n, c) => n \in CCNode
  BY <1>2, <1>3, CCFrame DEF Ahead
<1> QED
  BY <1>2, <1>3, <1>4, <1>5

(* The combiner is at the node of a thread of its list that is not served yet,
   which leads to the node after it. *)
LEMMA AtNode ==
  ASSUME prog \in CCPrograms, prog' = prog, CCInv, NEW t \in Thread, pc[t] \in {"lock", "wait", "combine"}
  PROVE  /\ loc[t].p \in CCNode /\ ~Completed(loc[t].p) /\ Alone(loc[t].p)
         /\ loc[t].p # Last(cluster(t)) =>
              \E w \in Thread : /\ loc[t].p = cur(w) /\ cluster(w) = cluster(t) /\ Unserved(w)
                                /\ w = t \/ (Queued(w) /\ Locked(cur(w)))
<1>1. CombinerOK(t) /\ cluster(t) \in Clusters
  BY CCFrame
<1>2. CASE loc[t].p = cur(t) /\ Unserved(t)
  BY <1>1, <1>2, CCCur DEF Unserved, CombinerOK
<1>3. CASE Ahead(loc[t].p, cluster(t))
  BY <1>1, <1>3, CCCur DEF Ahead, Unserved, CombinerOK
<1> QED
  BY <1>1, <1>2, <1>3 DEF CombinerOK

(* The combiner of another cluster does not see what this one does to the node
   it is at. *)
LEMMA OtherCombiner ==
  ASSUME prog \in CCPrograms, prog' = prog, CCInv, NEW t \in Thread, NEW u \in Thread \ {t},
         pc[t] \in {"combine", "release"}, Combining(u), pc'[u] = pc[u], loc'[u] = loc[u],
         \A v \in Thread : cur(v)' = cur(v) /\ spare(v)' = spare(v) /\ cluster(v)' = cluster(v)
                           /\ loc'[v].mine = loc[v].mine /\ (Queued(v) => Queued(v)' \/ v = t)
                           /\ (Unserved(v)' => Unserved(v)),
         \A c \in Clusters : Last(c)' = Last(c),
         \A m \in CCNode \ {loc[t].p} : mem'[m].locked = mem[m].locked /\ mem'[m].completed = mem[m].completed
  PROVE  CombinerOK(u)'
<1>1. cluster(t) \in Clusters /\ cluster(u) \in Clusters /\ cluster(u) # cluster(t)
  <2>1. Elected(t) /\ Elected(u)
    BY CCFrame DEF Combining, CCInside
  <2> QED
    BY <2>1, CCFrame
<1>2. prog # "ccstack"
  BY <1>1 DEF Clusters, HPrograms
<1>3. pc[u] # "advance" /\ CombinerOK(u)
  BY <1>2, CCFrame DEF CCTypes
<1>4. PICK n \in CCNode : n = loc[t].p /\ (n = Last(cluster(t)) \/ \E w \in Thread : pc[w] # "idle" /\ n = cur(w) /\ cluster(w) = cluster(t))
  <2>1. CASE pc[t] = "combine"
    BY <2>1, AtNode, CCCur DEF Unserved
  <2>2. CASE pc[t] = "release"
    <3>1. PICK w \in Thread : loc[t].p = cur(w) /\ cluster(w) = cluster(t) /\ (w = t \/ Queued(w))
      BY <2>2, CCFrame DEF CombinerOK
    <3> QED
      BY <2>2, <3>1, CCCur
  <2> QED
    BY <2>1, <2>2
<1>5. \A w \in Thread : pc[w] # "idle" /\ cluster(w) = cluster(u) => cur(w) \in CCNode \ {n}
  BY <1>1, <1>4, CCCur
<1>6. Last(cluster(u)) \in CCNode \ {n}
  BY <1>1, <1>4, CCCur, CCFrame DEF NodesOK
<1>7. \A m : Ahead(m, cluster(u)) => m \in CCNode \ {n}
  BY <1>5, <1>6, CCCur DEF Ahead
<1>8. \A m : Ahead(m, cluster(u)) => Ahead(m, cluster(u))'
  <2> SUFFICES ASSUME NEW m, Ahead(m, cluster(u)) PROVE Ahead(m, cluster(u))'
    OBVIOUS
  <2>1. Locked(m)' /\ ~Completed(m)'
    BY <1>4, <1>7 DEF Ahead, Locked, Completed
  <2>2. m = Last(cluster(u))' \/ \E w \in Thread : Queued(w)' /\ cluster(w)' = cluster(u)' /\ m = cur(w)'
    BY <1>1 DEF Ahead
  <2> QED
    BY <2>1, <2>2 DEF Ahead
<1>9. \A m : Alone(m) => Alone(m)'
  BY DEF Alone
<1>10. Unserved(u) => Unserved(u)'
  <2>1. pc[u] # "idle" /\ Combining(u)'
    BY CCCur DEF Combining
  <2> QED
    BY <1>4, <1>5, <2>1 DEF Unserved, Completed
<1>11. pc[u] = "release" => /\ Completed(loc[u].p)'
                            /\ \E w \in Thread : loc'[u].p = cur(w)' /\ cluster(w)' = cluster(u)'
                                                 /\ (w = u \/ (Queued(w)' /\ Locked(cur(w))'))
  <2> SUFFICES ASSUME pc[u] = "release"
               PROVE  /\ Completed(loc[u].p)'
                      /\ \E w \in Thread : loc'[u].p = cur(w)' /\ cluster(w)' = cluster(u)'
                                           /\ (w = u \/ (Queued(w)' /\ Locked(cur(w))'))
    OBVIOUS
  <2>1. PICK w \in Thread : loc[u].p = cur(w) /\ cluster(w) = cluster(u) /\ (w = u \/ (Queued(w) /\ Locked(cur(w))))
    BY <1>3 DEF CombinerOK
  <2>2. pc[w] # "idle" /\ w # t /\ cur(w) \in CCNode \ {n}
    BY <1>1, <1>5, <2>1, CCCur
  <2>3. Completed(loc[u].p)' /\ (Locked(cur(w))' <=> Locked(cur(w)))
    BY <1>3, <1>4, <2>1, <2>2 DEF CombinerOK, Completed, Locked
  <2> QED
    BY <2>1, <2>2, <2>3
<1>12. pc[u] \in {"lock", "wait", "combine"} =>
         /\ (loc'[u].p = cur(u)' /\ Unserved(u)') \/ Ahead(loc[u].p, cluster(u))'
         /\ Alone(loc[u].p)'
  <2> SUFFICES ASSUME pc[u] \in {"lock", "wait", "combine"}
               PROVE  /\ (loc'[u].p = cur(u)' /\ Unserved(u)') \/ Ahead(loc[u].p, cluster(u))'
                      /\ Alone(loc[u].p)'
    OBVIOUS
  <2>1. PICK m : m = loc[u].p
    OBVIOUS
  <2>2. Alone(m) /\ ((m = cur(u) /\ Unserved(u)) \/ Ahead(m, cluster(u)))
    BY <1>3, <2>1 DEF CombinerOK
  <2>3. Alone(m)' /\ ((m = cur(u)' /\ Unserved(u)') \/ Ahead(m, cluster(u))')
    BY <1>8, <1>9, <1>10, <2>2
  <2> QED
    BY <2>1, <2>3
<1>13. pc[u] = "release" => Ahead(Following(u), cluster(u))' /\ Alone(Following(u))'
  <2> SUFFICES ASSUME pc[u] = "release" PROVE Ahead(Following(u), cluster(u))' /\ Alone(Following(u))'
    OBVIOUS
  <2>1. PICK m : m = Following(u) /\ m = Following(u)'
    BY <1>2 DEF Following
  <2>2. Ahead(m, cluster(u)) /\ Alone(m)
    BY <1>3, <2>1 DEF CombinerOK
  <2>3. Ahead(m, cluster(u))' /\ Alone(m)'
    BY <1>8, <1>9, <2>2
  <2> QED
    BY <2>1, <2>3
<1> QED
  BY <1>3, <1>11, <1>12, <1>13 DEF CombinerOK

(* A thread takes the last node as its own and leaves a fresh one. *)
LEMMA CCAnnounce ==
  ASSUME prog \in CCPrograms, prog' = prog, CCInv, NEW t \in Thread, CC!Announce(t) \/ CCS!Announce(t) \/ H!Announce(t)
  PROVE  CCInv'
<1> USE DEF CCInside, Combining
<1>0. /\ CCTypes /\ NodesOK /\ ChainOK /\ Spares \in {1, 2} /\ Spares' = Spares /\ CCNode' = CCNode /\ Clusters' = Clusters
      /\ Null \notin CCNode /\ (\A c \in Clusters : Last(c) \in CCNode) /\ \A u \in Thread : cluster(u) \in Clusters
  BY CCFrame
<1>1. PICK k \in Clusters, c \in CCNode : k = cluster(t) /\ c = Last(k)
  BY <1>0
<1>2. PICK m \in CCNode : m = spare(t)[1] /\ m = Head(spare(t))
  BY <1>0, <1>1, Rotated
<1>3. PICK s \in [1..Spares -> CCNode] :
        s = Append(Tail(spare(t)), c) /\ s[Spares] = c /\ (Spares = 2 => s[1] = spare(t)[2])
  BY <1>0, Rotated
<1>4. m # c
  BY <1>0, <1>1, <1>2 DEF NodesOK
<1>5. /\ pc' = [pc EXCEPT ![t] = "link1"] /\ pc[t] = "idle"
      /\ mem' = [mem EXCEPT ![m] = [@ EXCEPT !.next = Null, !.locked = TRUE, !.completed = FALSE],
                            ![c].owner = t]
      /\ root' = [root EXCEPT !.Tail[k] = m]
      /\ loc' = [loc EXCEPT ![t] = [@ EXCEPT !.cur = c, !.mine = m, !.spare = s]]
  <2>1. loc[t].cluster = k /\ Head(loc[t].spare) = m /\ Append(Tail(loc[t].spare), root.Tail[k]) = s /\ root.Tail[k] = c
    BY <1>0, <1>1, <1>2, <1>3 DEF spare, Last, cluster
  <2>2. CASE CC!Announce(t)
    <3>1. pc' = [pc EXCEPT ![t] = "link1"] /\ pc[t] = "idle"
      BY <2>2 DEF CC!Announce, CC!Call, CC!Go
    <3>2. mem' = [mem EXCEPT ![m] = [@ EXCEPT !.next = Null, !.locked = TRUE, !.completed = FALSE], ![c].owner = t]
      BY <2>1, <2>2 DEF CC!Announce, CC!Null, Null
    <3>3. root' = [root EXCEPT !.Tail[k] = m]
      BY <2>1, <2>2 DEF CC!Announce
    <3>4. loc' = [loc EXCEPT ![t] = [@ EXCEPT !.cur = c, !.mine = m, !.spare = s]]
      BY <2>1, <2>2 DEF CC!Announce
    <3> QED
      BY <3>1, <3>2, <3>3, <3>4
  <2>3. CASE CCS!Announce(t)
    <3>1. pc' = [pc EXCEPT ![t] = "link1"] /\ pc[t] = "idle"
      BY <2>3 DEF CCS!Announce, CCS!Call, CCS!Go
    <3>2. mem' = [mem EXCEPT ![m] = [@ EXCEPT !.next = Null, !.locked = TRUE, !.completed = FALSE], ![c].owner = t]
      BY <2>1, <2>3 DEF CCS!Announce, CCS!Null, Null
    <3>3. root' = [root EXCEPT !.Tail[k] = m]
      BY <2>1, <2>3 DEF CCS!Announce
    <3>4. loc' = [loc EXCEPT ![t] = [@ EXCEPT !.cur = c, !.mine = m, !.spare = s]]
      BY <2>1, <2>3 DEF CCS!Announce
    <3> QED
      BY <3>1, <3>2, <3>3, <3>4
  <2>4. CASE H!Announce(t)
    <3>1. pc' = [pc EXCEPT ![t] = "link1"] /\ pc[t] = "idle"
      BY <2>4 DEF H!Announce, H!Call, H!Go
    <3>2. mem' = [mem EXCEPT ![m] = [@ EXCEPT !.next = Null, !.locked = TRUE, !.completed = FALSE], ![c].owner = t]
      BY <2>1, <2>4 DEF H!Announce, H!Null, Null
    <3>3. root' = [root EXCEPT !.Tail[k] = m]
      BY <2>1, <2>4 DEF H!Announce
    <3>4. loc' = [loc EXCEPT ![t] = [@ EXCEPT !.cur = c, !.mine = m, !.spare = s]]
      BY <2>1, <2>4 DEF H!Announce
    <3> QED
      BY <3>1, <3>2, <3>3, <3>4
  <2> QED
    BY <2>2, <2>3, <2>4
<1>6. pc'[t] = "link1" /\ (\A u \in Thread \ {t} : pc'[u] = pc[u]) /\ pc' \in [Thread -> CCLabel]
  BY <1>0, <1>5 DEF CCTypes, CCLabel
<1>7. /\ DOMAIN mem' = CCNode
      /\ \A n \in CCNode \ {m} : /\ DOMAIN mem'[n] = DOMAIN mem[n]
                                 /\ mem'[n].locked = mem[n].locked /\ mem'[n].completed = mem[n].completed
                                 /\ mem'[n].next = mem[n].next
      /\ DOMAIN mem'[m] = DOMAIN mem[m]
      /\ mem'[m].locked = TRUE /\ mem'[m].completed = FALSE /\ mem'[m].next = Null
  BY <1>0, <1>4, <1>5 DEF CCTypes
<1>8. /\ DOMAIN loc' = Thread /\ \A u \in Thread \ {t} : loc'[u] = loc[u]
      /\ DOMAIN loc'[t] = DOMAIN loc[t] /\ loc'[t].cluster = loc[t].cluster
      /\ loc'[t].cur = c /\ loc'[t].mine = m /\ loc'[t].spare = s
  BY <1>0, <1>5 DEF CCTypes
<1>9. /\ Last(k)' = m /\ \A d \in Clusters \ {k} : Last(d)' = Last(d)
      /\ "Tail" \in DOMAIN root' /\ root'.Tail \in [Clusters -> CCNode]
  <2>1. "Tail" \in DOMAIN root' /\ root'.Tail = [root.Tail EXCEPT ![k] = m] /\ root.Tail \in [Clusters -> CCNode]
    BY <1>0, <1>5 DEF CCTypes
  <2>2. root'.Tail \in [Clusters -> CCNode] /\ root'.Tail[k] = m /\ \A d \in Clusters \ {k} : root'.Tail[d] = root.Tail[d]
    BY <2>1
  <2> QED
    BY <2>1, <2>2 DEF Last
<1>10. /\ \A u \in Thread \ {t} : spare(u)' = spare(u) /\ cur(u)' = cur(u) /\ cluster(u)' = cluster(u)
       /\ spare(t)' = s /\ cur(t)' = c /\ cluster(t)' = k
  BY <1>1, <1>8 DEF spare, cur, cluster
<1>11. CCTypes'
  <2>1. \A u \in Thread : /\ DOMAIN loc'[u] = {"spare", "cluster", "mine", "cur", "p", "next", "counter"}
                          /\ cluster(u)' \in Clusters /\ spare(u)' \in [1..Spares -> CCNode]
    BY <1>0, <1>8, <1>10 DEF CCTypes
  <2>2. \A n \in CCNode : /\ DOMAIN mem'[n] = {"next", "arg_ret", "locked", "completed", "owner"}
                          /\ mem'[n].locked \in BOOLEAN /\ mem'[n].completed \in BOOLEAN
    <3> TAKE n \in CCNode
    <3>1. CASE n = m
      BY <1>0, <1>7, <3>1 DEF CCTypes
    <3>2. CASE n # m
      BY <1>0, <1>7, <3>2 DEF CCTypes
    <3> QED
      BY <3>1, <3>2
  <2>3. prog # "ccstack" => \A u \in Thread : pc'[u] # "advance"
    BY <1>0, <1>6 DEF CCTypes
  <2> QED
    BY <1>0, <1>6, <1>7, <1>8, <1>9, <2>1, <2>2, <2>3 DEF CCTypes
<1>12. NodesOK'
  <2>1. \A u, w \in Thread, i, j \in 1..Spares : spare(u)'[i] = spare(w)'[j] => u = w /\ i = j
    BY <1>0, <1>1, <1>3, <1>10 DEF NodesOK
  <2>2. \A u \in Thread, i \in 1..Spares : spare(u)'[i] # m /\ \A d \in Clusters \ {k} : spare(u)'[i] # Last(d)
    BY <1>0, <1>1, <1>2, <1>3, <1>4, <1>10 DEF NodesOK
  <2>3. \A u \in Thread : pc'[u] # "idle" => cur(u)' = spare(u)'[Spares]
    BY <1>0, <1>3, <1>6, <1>10 DEF NodesOK
  <2>4. \A d \in Clusters : Last(d) # m
    BY <1>0, <1>2 DEF NodesOK
  <2>5. \A u \in Thread, i \in 1..Spares, d \in Clusters : spare(u)'[i] # Last(d)'
    BY <1>9, <2>2
  <2>6. \A d, e \in Clusters : Last(d)' = Last(e)' => d = e
    BY <1>0, <1>9, <2>4 DEF NodesOK
  <2>7. \A d \in Clusters : mem'[Last(d)'].next = Null /\ ~Completed(Last(d))'
    <3>1. \A d \in Clusters \ {k} : mem'[Last(d)].next = Null /\ mem'[Last(d)].completed = mem[Last(d)].completed /\ ~Completed(Last(d))
      BY <1>0, <1>7, <2>4 DEF NodesOK
    <3> QED
      BY <1>7, <1>9, <3>1 DEF Completed
  <2> QED
    BY <1>0, <2>1, <2>3, <2>5, <2>6, <2>7 DEF NodesOK
<1>13. \A u \in Thread : Combining(u)' <=> Combining(u)
  BY <1>5, <1>6
<1>14. \A u \in Thread \ {t} : pc[u] # "idle" => cur(u) \in CCNode \ {m, c}
  BY <1>0, <1>1, <1>2, CCCur DEF NodesOK
<1>15. mem[c].completed = FALSE /\ mem[c].next = Null
  BY <1>0, <1>1 DEF NodesOK, Completed, CCTypes
<1>16. /\ \A u \in Thread \ {t} : Queued(u)' <=> Queued(u)
       /\ Queued(t)' /\ ~Queued(t) /\ ~Combining(t) /\ ~Combining(t)'
  BY <1>5, <1>6, <1>13, CCFrame DEF Queued
<1>17. /\ \A u \in Thread \ {t} : (Unserved(u)' <=> Unserved(u)) /\ (Elected(u)' <=> Elected(u))
       /\ Elected(t)' => ~mem[c].locked
  BY <1>4, <1>7, <1>10, <1>13, <1>14, <1>16, CCCur DEF Unserved, Elected, Completed, Locked
<1>18. \A n \in CCNode, d \in Clusters : Ahead(n, d) => Ahead(n, d)' /\ n # m
  <2> SUFFICES ASSUME NEW n \in CCNode, NEW d \in Clusters, Ahead(n, d) PROVE Ahead(n, d)' /\ n # m
    OBVIOUS
  <2>1. n # m
    BY <1>0, <1>2, <1>14, <1>16, CCCur DEF Ahead, NodesOK
  <2>2. Locked(n)' /\ ~Completed(n)'
    BY <1>7, <2>1 DEF Ahead, Locked, Completed
  <2>3. CASE n = Last(d) /\ d = k
    <3>1. Queued(t)' /\ cluster(t)' = d /\ n = cur(t)'
      BY <1>1, <1>10, <1>16, <2>3
    <3> QED
      BY <2>1, <2>2, <3>1 DEF Ahead
  <2>4. CASE n = Last(d) /\ d # k
    BY <1>9, <2>1, <2>2, <2>4 DEF Ahead
  <2>5. CASE \E w \in Thread : Queued(w) /\ cluster(w) = d /\ n = cur(w)
    BY <1>10, <1>16, <2>1, <2>2, <2>5 DEF Ahead
  <2> QED
    BY <2>3, <2>4, <2>5 DEF Ahead
<1>19. Ahead(m, k)'
  BY <1>7, <1>9 DEF Ahead, Completed, Locked
<1>20. \A u \in Thread \ {t} : Unserved(u) => Ahead(loc[u].mine, cluster(u)) /\ loc[u].mine \in CCNode \ {m}
  BY <1>0, <1>18, CCCur DEF ChainOK
<1>21. ChainOK'
  <2>1. \A u \in Thread : Unserved(u)' => Ahead(loc[u].mine, cluster(u))'
    <3>1. \A u \in Thread \ {t} : Unserved(u)' => \E n \in CCNode, d \in Clusters : n = loc'[u].mine /\ d = cluster(u)' /\ Ahead(n, d)'
      BY <1>0, <1>8, <1>10, <1>17, <1>18, <1>20
    <3> QED
      BY <1>8, <1>10, <1>19, <3>1
  <2>2. \A u, w \in Thread : Unserved(u)' /\ Unserved(w)' /\ loc'[u].mine = loc'[w].mine => u = w
    BY <1>0, <1>8, <1>17, <1>20 DEF ChainOK
  <2>3. \A u \in Thread : Queued(u)' \/ Combining(u)' => mem'[cur(u)'].next \in {Null, loc'[u].mine}
    <3>1. \A u \in Thread \ {t} : Queued(u)' \/ Combining(u)' => mem'[cur(u)'].next \in {Null, loc'[u].mine}
      BY <1>0, <1>7, <1>8, <1>10, <1>13, <1>14, <1>16, CCCur DEF ChainOK
    <3> QED
      BY <1>4, <1>7, <1>10, <1>15, <3>1
  <2> QED
    BY <2>1, <2>2, <2>3 DEF ChainOK
<1>22. \A u, w \in Thread : Elected(u)' /\ Elected(w)' /\ cluster(u)' = cluster(w)' => u = w
  BY <1>1, <1>10, <1>17, CCFrame DEF Locked
<1>23. \A u \in Thread : Elected(u)' => Locked(Last(cluster(u)))'
  <2> SUFFICES ASSUME NEW u \in Thread, Elected(u)' PROVE Locked(Last(cluster(u)))'
    OBVIOUS
  <2>1. CASE cluster(u)' = k
    BY <1>7, <1>9, <2>1 DEF Locked
  <2>2. CASE cluster(u)' # k
    <3>1. PICK d \in Clusters \ {k} : d = cluster(u) /\ d = cluster(u)' /\ u # t
      BY <1>0, <1>10, <2>2
    <3>2. Locked(Last(d)) /\ Last(d) \in CCNode \ {m}
      <4>1. Elected(u)
        BY <1>17, <3>1
      <4>2. Locked(Last(d))
        BY <3>1, <4>1, CCFrame
      <4>3. m # Last(d)
        BY <1>0, <1>2, <3>1 DEF NodesOK
      <4> QED
        BY <1>0, <3>1, <4>2, <4>3
    <3>3. Locked(Last(d))'
      BY <1>7, <1>9, <3>2 DEF Locked
    <3> QED
      BY <3>1, <3>3
  <2> QED
    BY <2>1, <2>2
<1>24. \A n \in CCNode : Alone(n) /\ n # m => Alone(n)'
  BY <1>8, <1>17 DEF Alone
<1>25. \A u \in Thread : CombinerOK(u)'
  <2> SUFFICES ASSUME NEW u \in Thread, Combining(u) PROVE CombinerOK(u)'
    BY <1>13 DEF CombinerOK
  <2>1. u # t /\ loc'[u] = loc[u] /\ pc'[u] = pc[u] /\ CombinerOK(u) /\ pc[u] # "idle"
        /\ cluster(u)' = cluster(u) /\ cluster(u) \in Clusters
    BY <1>0, <1>6, <1>8, <1>10, <1>16, CCFrame, CCCur
  <2>a. cluster(u) = k => mem[c].locked
    BY <1>1, CCFrame DEF Locked
  <2>2. ASSUME pc[u] \in {"lock", "wait", "combine"}
        PROVE  ((loc[u].p = cur(u) /\ Unserved(u)) \/ Ahead(loc[u].p, cluster(u)))' /\ Alone(loc[u].p)'
    <3>1. loc[u].p \in CCNode \ {m} /\ Alone(loc[u].p)
      BY <1>0, <1>14, <1>18, <2>1, <2>2, AtNode DEF CombinerOK
    <3>2. PICK n \in CCNode : n = loc[u].p
      BY <3>1
    <3>3. (n = cur(u) /\ Unserved(u)) \/ Ahead(n, cluster(u))
      BY <2>1, <2>2, <3>2 DEF CombinerOK
    <3>4. (n = cur(u)' /\ Unserved(u)') \/ Ahead(n, cluster(u))'
      BY <1>10, <1>17, <1>18, <2>1, <3>2, <3>3
    <3>5. Alone(n)'
      BY <1>24, <3>1, <3>2
    <3> QED
      BY <2>1, <3>2, <3>4, <3>5
  <2>3. ASSUME pc[u] = "release"
        PROVE  /\ loc[u].p \in CCNode \ {m} /\ Completed(loc[u].p)'
               /\ \E w \in Thread : loc'[u].p = cur(w)' /\ cluster(w)' = cluster(u)'
                                    /\ (w = u \/ (Queued(w)' /\ Locked(cur(w))'))
    <3>1. PICK w \in Thread : loc[u].p = cur(w) /\ cluster(w) = cluster(u) /\ (w = u \/ (Queued(w) /\ Locked(cur(w))))
      BY <2>1, <2>3 DEF CombinerOK
    <3>2. w # t /\ pc[w] # "idle"
      BY <1>16, <2>1, <3>1, CCCur
    <3>3. loc[u].p \in CCNode \ {m}
      BY <1>14, <3>1, <3>2
    <3>4. Completed(loc[u].p)'
      BY <1>7, <2>1, <2>3, <3>3 DEF CombinerOK, Completed
    <3>5. w = u \/ (Queued(w)' /\ Locked(cur(w))')
      BY <1>7, <1>10, <1>16, <3>1, <3>2, <3>3 DEF Locked
    <3> QED
      BY <1>10, <2>1, <3>1, <3>2, <3>3, <3>4, <3>5
  <2>4. ASSUME pc[u] = "advance"
        PROVE  /\ loc[u].p \in CCNode \ {m}
               /\ \E w \in Thread :
                    \/ loc'[u].p = spare(w)'[2]
                    \/ /\ loc'[u].p = spare(w)'[1]
                       /\ Queued(w)' /\ Locked(cur(w))' /\ ~Completed(cur(w))'
    <3>1. PICK w \in Thread : \/ loc[u].p = spare(w)[2]
                              \/ /\ loc[u].p = spare(w)[1]
                                 /\ Queued(w) /\ Locked(cur(w)) /\ ~Completed(cur(w))
      BY <2>1, <2>4 DEF CombinerOK
    <3>2. Spares = 2
      BY <1>0, <2>4 DEF CCTypes, Spares, CCPrograms
    <3>3. loc[u].p \in CCNode \ {m}
      BY <1>0, <1>2, <1>16, <3>1, <3>2 DEF CCTypes, NodesOK
    <3>4. CASE w = t
      <4>1. loc'[u].p = spare(t)'[1]
        BY <1>3, <1>10, <1>16, <2>1, <3>1, <3>2, <3>4
      <4>2. cluster(u) = k
        BY <1>0, <2>1, <2>4 DEF Clusters, CCTypes, HPrograms
      <4>3. Locked(cur(t))' /\ ~Completed(cur(t))'
        BY <1>4, <1>7, <1>10, <1>15, <2>a, <4>2 DEF Locked, Completed
      <4> QED
        BY <1>16, <3>3, <4>1, <4>3
    <3>5. CASE w # t
      BY <1>7, <1>10, <1>14, <1>16, <2>1, <3>1, <3>3, <3>5, CCCur DEF Locked, Completed
    <3> QED
      BY <3>4, <3>5
  <2>5. ASSUME pc[u] \in {"release", "advance"}
        PROVE  Ahead(Following(u), cluster(u))' /\ Alone(Following(u))'
    <3>1. Ahead(Following(u), cluster(u)) /\ Alone(Following(u))
      BY <2>1, <2>5 DEF CombinerOK
    <3>2. PICK n \in CCNode : n = Following(u)
      BY <2>1, <3>1, CCCur
    <3>3. n = Following(u)'
      BY <1>7, <2>1, <2>3, <2>4, <2>5, <3>2 DEF Following
    <3>4. Ahead(n, cluster(u))' /\ Alone(n)'
      BY <1>18, <1>24, <2>1, <3>1, <3>2
    <3> QED
      BY <3>3, <3>4
  <2> QED
    BY <2>1, <2>2, <2>3, <2>4, <2>5 DEF CombinerOK
<1> QED
  BY <1>11, <1>12, <1>21, <1>22, <1>23, <1>25 DEF CCInv

(* A thread in the queue writes its request, or links its node to the one it
   left; both only touch its own node. *)
LEMMA CCWrites ==
  ASSUME prog \in CCPrograms, prog' = prog, CCInv, NEW t \in Thread, NEW l \in {"link2", "spin"},
         pc[t] \in {"link1", "link2"}, pc' = [pc EXCEPT ![t] = l], UNCHANGED <<loc, root>>,
         \/ \E x : mem' = [mem EXCEPT ![loc[t].cur].arg_ret = x]
         \/ mem' = [mem EXCEPT ![loc[t].cur].next = loc[t].mine]
  PROVE  CCInv'
<1> USE DEF CCInside, Combining
<1>0. /\ CCTypes /\ NodesOK /\ ChainOK /\ Spares \in {1, 2} /\ Spares' = Spares /\ CCNode' = CCNode /\ Clusters' = Clusters
      /\ Null \notin CCNode /\ (\A c \in Clusters : Last(c) \in CCNode) /\ \A u \in Thread : cluster(u) \in Clusters
  BY CCFrame
<1>1. Queued(t) /\ ~Combining(t) /\ cur(t) \in CCNode /\ (\A c \in Clusters : cur(t) # Last(c)) /\ cur(t) = loc[t].cur
  BY CCFrame, CCCur DEF Queued, cur
<1>2. /\ DOMAIN mem' = CCNode
      /\ \A n \in CCNode : /\ DOMAIN mem'[n] = DOMAIN mem[n]
                           /\ mem'[n].locked = mem[n].locked /\ mem'[n].completed = mem[n].completed
      /\ \A n \in CCNode \ {cur(t)} : mem'[n].next = mem[n].next
      /\ mem'[cur(t)].next \in {mem[cur(t)].next, loc[t].mine}
  <2>1. CASE \E x : mem' = [mem EXCEPT ![loc[t].cur].arg_ret = x]
    BY <1>0, <1>1, <2>1 DEF CCTypes
  <2>2. CASE mem' = [mem EXCEPT ![loc[t].cur].next = loc[t].mine]
    BY <1>0, <1>1, <2>2 DEF CCTypes
  <2> QED
    BY <2>1, <2>2
<1>3. pc'[t] = l /\ (\A u \in Thread \ {t} : pc'[u] = pc[u]) /\ pc' \in [Thread -> CCLabel]
  BY <1>0 DEF CCTypes, CCLabel
<1>4. /\ \A u \in Thread : (Combining(u)' <=> Combining(u)) /\ (Queued(u)' <=> Queued(u))
      /\ \A u \in Thread : spare(u)' = spare(u) /\ cur(u)' = cur(u) /\ cluster(u)' = cluster(u)
      /\ \A c \in Clusters : Last(c)' = Last(c)
  BY <1>1, <1>3, CCFrame DEF Queued, spare, cur, cluster, Last
<1>5. CCTypes'
  BY <1>0, <1>2, <1>3, <1>4 DEF CCTypes
<1>6. NodesOK'
  <2>1. \A u \in Thread : pc'[u] # "idle" => pc[u] # "idle"
    BY <1>3
  <2>2. \A c \in Clusters : mem'[Last(c)'].next = Null /\ ~Completed(Last(c))'
    BY <1>0, <1>1, <1>2, <1>4 DEF NodesOK, Completed
  <2> QED
    BY <1>0, <1>4, <2>1, <2>2 DEF NodesOK
<1>7. \A u \in Thread : (Unserved(u)' <=> Unserved(u)) /\ (Elected(u)' <=> Elected(u))
  BY <1>2, <1>4, CCCur DEF Unserved, Elected, Completed, Locked
<1>8. \A n \in CCNode : (\A d \in Clusters : Ahead(n, d)' <=> Ahead(n, d)) /\ (Alone(n)' <=> Alone(n))
  <2> TAKE n \in CCNode
  <2>1. (Locked(n)' <=> Locked(n)) /\ (Completed(n)' <=> Completed(n))
    BY <1>2 DEF Locked, Completed
  <2>2. \A d \in Clusters : Ahead(n, d)' <=> Ahead(n, d)
    BY <1>4, <2>1 DEF Ahead
  <2>3. Alone(n)' <=> Alone(n)
    BY <1>7 DEF Alone
  <2> QED
    BY <2>2, <2>3
<1>9. ChainOK'
  <2>1. \A u \in Thread : Unserved(u)' => Ahead(loc[u].mine, cluster(u))'
    <3>1. \A u \in Thread : Unserved(u) => \E n \in CCNode, d \in Clusters : n = loc[u].mine /\ d = cluster(u) /\ Ahead(n, d)'
      BY <1>0, <1>8, CCCur DEF ChainOK
    <3> QED
      BY <1>4, <1>7, <3>1
  <2>2. \A u, w \in Thread : Unserved(u)' /\ Unserved(w)' /\ loc'[u].mine = loc'[w].mine => u = w
    BY <1>0, <1>7 DEF ChainOK
  <2>3. \A u \in Thread : Queued(u)' \/ Combining(u)' => mem'[cur(u)'].next \in {Null, loc'[u].mine}
    <3> SUFFICES ASSUME NEW u \in Thread, Queued(u) \/ Combining(u)
                 PROVE  mem'[cur(u)].next \in {Null, loc[u].mine}
      BY <1>4
    <3>1. cur(u) \in CCNode /\ (cur(u) = cur(t) => u = t) /\ mem[cur(u)].next \in {Null, loc[u].mine}
      BY <1>0, <1>1, CCCur DEF ChainOK
    <3> QED
      BY <1>2, <3>1
  <2> QED
    BY <2>1, <2>2, <2>3 DEF ChainOK
<1>10. \A u \in Thread : CombinerOK(u)'
  <2> SUFFICES ASSUME NEW u \in Thread, Combining(u) PROVE CombinerOK(u)'
    BY <1>4, CCFrame DEF CombinerOK
  <2>1. u # t /\ pc'[u] = pc[u] /\ CombinerOK(u) /\ cluster(u) \in Clusters /\ cluster(u)' = cluster(u)
    BY <1>0, <1>1, <1>3, <1>4, CCFrame
  <2>2. ASSUME pc[u] \in {"lock", "wait", "combine"}
        PROVE  ((loc[u].p = cur(u) /\ Unserved(u)) \/ Ahead(loc[u].p, cluster(u)))' /\ Alone(loc[u].p)'
    <3>1. PICK n \in CCNode : n = loc[u].p /\ Alone(n)
      BY <2>2, AtNode
    <3>2. (n = cur(u) /\ Unserved(u)) \/ Ahead(n, cluster(u))
      BY <2>1, <2>2, <3>1 DEF CombinerOK
    <3>3. (n = cur(u)' /\ Unserved(u)') \/ Ahead(n, cluster(u))'
      BY <1>4, <1>7, <1>8, <2>1, <3>2
    <3>4. Alone(n)'
      BY <1>8, <3>1
    <3> QED
      BY <2>1, <3>1, <3>3, <3>4
  <2>3. ASSUME pc[u] = "release"
        PROVE  /\ Completed(loc[u].p)'
               /\ \E w \in Thread : loc'[u].p = cur(w)' /\ cluster(w)' = cluster(u)' /\ (w = u \/ (Queued(w)' /\ Locked(cur(w))'))
    <3>1. PICK w \in Thread : loc[u].p = cur(w) /\ cluster(w) = cluster(u) /\ (w = u \/ (Queued(w) /\ Locked(cur(w))))
      BY <2>1, <2>3 DEF CombinerOK
    <3>2. cur(w) \in CCNode
      BY <2>3, <3>1, CCCur
    <3>3. Completed(loc[u].p)'
      BY <1>2, <2>1, <2>3, <3>1, <3>2 DEF CombinerOK, Completed
    <3>4. w = u \/ (Queued(w)' /\ Locked(cur(w))')
      BY <1>2, <1>4, <3>1, <3>2 DEF Locked
    <3> QED
      BY <1>4, <3>1, <3>3, <3>4
  <2>4. ASSUME pc[u] = "advance"
        PROVE  \E w \in Thread :
                    \/ loc'[u].p = spare(w)'[2]
                    \/ /\ loc'[u].p = spare(w)'[1]
                       /\ Queued(w)' /\ Locked(cur(w))' /\ ~Completed(cur(w))'
    <3>1. PICK w \in Thread : \/ loc[u].p = spare(w)[2]
                              \/ /\ loc[u].p = spare(w)[1]
                                 /\ Queued(w) /\ Locked(cur(w)) /\ ~Completed(cur(w))
      BY <2>1, <2>4 DEF CombinerOK
    <3>2. Queued(w) => cur(w) \in CCNode
      BY CCCur
    <3> QED
      BY <1>2, <1>4, <3>1, <3>2 DEF Locked, Completed
  <2>5. ASSUME pc[u] \in {"release", "advance"}
        PROVE  Ahead(Following(u), cluster(u))' /\ Alone(Following(u))'
    <3>1. Ahead(Following(u), cluster(u)) /\ Alone(Following(u))
      BY <2>1, <2>5 DEF CombinerOK
    <3>2. PICK n \in CCNode : n = Following(u)
      BY <2>1, <3>1, CCCur
    <3>3. n = Following(u)'
      <4>1. CASE prog # "ccstack"
        BY <3>2, <4>1 DEF Following
      <4>2. CASE prog = "ccstack"
        <5>1. Spares = 2 /\ n = mem[loc[u].p].next
          BY <3>2, <4>2 DEF Following, Spares
        <5>2. loc[u].p \in CCNode
          <6>1. CASE pc[u] = "release"
            BY <2>1, <6>1, CCCur DEF CombinerOK
          <6>2. CASE pc[u] = "advance"
            BY <1>0, <2>1, <5>1, <6>2 DEF CombinerOK, CCTypes
          <6> QED
            BY <2>5, <6>1, <6>2
        <5>3. CASE loc[u].p = cur(t)
          BY <1>0, <1>1, <1>2, <4>2, <5>1, <5>3 DEF ChainOK, Following
        <5>4. CASE loc[u].p # cur(t)
          BY <1>2, <4>2, <5>1, <5>2, <5>4 DEF Following
        <5> QED
          BY <5>3, <5>4
      <4> QED
        BY <4>1, <4>2
    <3>4. Ahead(n, cluster(u))' /\ Alone(n)'
      BY <1>8, <2>1, <3>1, <3>2
    <3> QED
      BY <3>3, <3>4
  <2> QED
    BY <2>1, <2>2, <2>3, <2>4, <2>5 DEF CombinerOK
<1>11. \A u \in Thread : Elected(u)' => Locked(Last(cluster(u)))'
  BY <1>0, <1>2, <1>4, <1>7, CCFrame DEF Locked
<1> QED
  BY <1>4, <1>5, <1>6, <1>7, <1>9, <1>10, <1>11, CCFrame DEF CCInv

(* A thread whose node was unlocked has been served, or is the combiner. *)
LEMMA CCSpin ==
  ASSUME prog \in CCPrograms, prog' = prog, CCInv, NEW t \in Thread, CC!Spin(t, "combine") \/ CCS!Spin(t, "combine") \/ H!Spin(t, "lock")
  PROVE  CCInv'
<1> USE DEF CCInside, Combining
<1>0. /\ CCTypes /\ NodesOK /\ ChainOK /\ Spares \in {1, 2} /\ Spares' = Spares /\ CCNode' = CCNode /\ Clusters' = Clusters
      /\ Null \notin CCNode /\ (\A c \in Clusters : Last(c) \in CCNode) /\ \A u \in Thread : cluster(u) \in Clusters
  BY CCFrame
<1>1. /\ pc[t] = "spin" /\ UNCHANGED <<mem, root>> /\ ~Locked(cur(t))
      /\ \/ pc' = [pc EXCEPT ![t] = "return"] /\ Completed(cur(t)) /\ loc' = loc
         \/ /\ pc' = [pc EXCEPT ![t] = "combine"] \/ pc' = [pc EXCEPT ![t] = "lock"]
            /\ ~Completed(cur(t))
            /\ \E k : loc' = [loc EXCEPT ![t].p = loc[t].cur, ![t].counter = k]
  BY DEF CC!Spin, CC!Go, CCS!Spin, CCS!Go, H!Spin, H!Go, Locked, Completed, cur
<1>2. pc'[t] \in {"return", "combine", "lock"} /\ (\A u \in Thread \ {t} : pc'[u] = pc[u]) /\ pc' \in [Thread -> CCLabel]
      /\ (pc'[t] = "return" <=> Completed(cur(t)))
  BY <1>0, <1>1 DEF CCTypes, CCLabel
<1>3. /\ DOMAIN loc' = Thread /\ \A u \in Thread \ {t} : loc'[u] = loc[u]
      /\ DOMAIN loc'[t] = DOMAIN loc[t] /\ loc'[t].cluster = loc[t].cluster
      /\ loc'[t].cur = loc[t].cur /\ loc'[t].mine = loc[t].mine /\ loc'[t].spare = loc[t].spare
      /\ pc'[t] # "return" => loc'[t].p = loc[t].cur
  BY <1>0, <1>1, <1>2 DEF CCTypes
<1>4. /\ \A u \in Thread : spare(u)' = spare(u) /\ cur(u)' = cur(u) /\ loc'[u].mine = loc[u].mine
      /\ \A u \in Thread : cluster(u)' = cluster(u)
      /\ \A c \in Clusters : Last(c)' = Last(c)
  BY <1>1, <1>3 DEF spare, cur, cluster, Last
<1>5. /\ \A u \in Thread \ {t} : (Combining(u)' <=> Combining(u)) /\ (Queued(u)' <=> Queued(u))
      /\ Queued(t) /\ ~Queued(t)' /\ ~Combining(t) /\ (Combining(t)' <=> pc'[t] # "return")
  BY <1>1, <1>2, CCFrame DEF Queued
<1>6. CCTypes'
  <2>1. \A u \in Thread : /\ DOMAIN loc'[u] = {"spare", "cluster", "mine", "cur", "p", "next", "counter"}
                          /\ cluster(u)' \in Clusters /\ spare(u)' \in [1..Spares' -> CCNode]
    BY <1>0, <1>3, <1>4 DEF CCTypes
  <2>2. prog # "ccstack" => \A u \in Thread : pc'[u] # "advance"
    BY <1>0, <1>2 DEF CCTypes
  <2> QED
    BY <1>0, <1>1, <1>2, <1>3, <2>1, <2>2 DEF CCTypes
<1>7. NodesOK'
  <2>1. \A u \in Thread : pc'[u] # "idle" => pc[u] # "idle"
    BY <1>1, <1>2
  <2> QED
    BY <1>0, <1>1, <1>4, <2>1 DEF NodesOK, Completed
<1>8. \A u \in Thread : (Unserved(u)' <=> Unserved(u)) /\ (Elected(u)' <=> Elected(u))
  <2>1. \A u \in Thread \ {t} : (Unserved(u)' <=> Unserved(u)) /\ (Elected(u)' <=> Elected(u))
    BY <1>1, <1>4, <1>5 DEF Unserved, Elected, Completed, Locked
  <2>2. (Unserved(t)' <=> Unserved(t)) /\ (Elected(t)' <=> Elected(t))
    BY <1>1, <1>2, <1>4, <1>5 DEF Unserved, Elected, Completed, Locked
  <2> QED
    BY <2>1, <2>2
<1>9. \A n \in CCNode : (\A d \in Clusters : Ahead(n, d) => Ahead(n, d)' /\ n # cur(t)) /\ (Alone(n)' <=> Alone(n))
  <2> TAKE n \in CCNode
  <2>1. (Locked(n)' <=> Locked(n)) /\ (Completed(n)' <=> Completed(n))
    BY <1>1 DEF Locked, Completed
  <2>2. \A d \in Clusters : Ahead(n, d) => Ahead(n, d)' /\ n # cur(t)
    BY <1>1, <1>4, <1>5, <2>1 DEF Ahead
  <2>3. Alone(n)' <=> Alone(n)
    BY <1>4, <1>8 DEF Alone
  <2> QED
    BY <2>2, <2>3
<1>10. ChainOK'
  <2>1. \A u \in Thread : Unserved(u)' => Ahead(loc[u].mine, cluster(u))'
    <3>1. \A u \in Thread : Unserved(u) => \E n \in CCNode, d \in Clusters : n = loc'[u].mine /\ d = cluster(u) /\ Ahead(n, d)'
      BY <1>0, <1>4, <1>9, CCCur DEF ChainOK
    <3> QED
      BY <1>4, <1>8, <3>1
  <2>2. \A u, w \in Thread : Unserved(u)' /\ Unserved(w)' /\ loc'[u].mine = loc'[w].mine => u = w
    BY <1>0, <1>4, <1>8 DEF ChainOK
  <2>3. \A u \in Thread : Queued(u)' \/ Combining(u)' => mem'[cur(u)'].next \in {Null, loc'[u].mine}
    BY <1>0, <1>1, <1>4, <1>5 DEF ChainOK
  <2> QED
    BY <2>1, <2>2, <2>3 DEF ChainOK
<1>11. CombinerOK(t)'
  <2> SUFFICES ASSUME pc'[t] \in {"combine", "lock"} PROVE CombinerOK(t)'
    BY <1>2 DEF CombinerOK
  <2>1. PICK n \in CCNode : n = cur(t)
    BY <1>1, CCCur
  <2>2. Unserved(t)' /\ loc'[t].p = n /\ cur(t)' = n
    BY <1>2, <1>3, <1>4, <1>5, <1>8, <2>1 DEF Unserved, cur
  <2>3. Alone(n)
    BY <1>0, <1>9, <2>1, CCCur DEF Alone, ChainOK
  <2>4. Alone(n)'
    BY <1>9, <2>3
  <2> QED
    BY <2>2, <2>4 DEF CombinerOK
<1>12. \A u \in Thread \ {t} : CombinerOK(u)'
  <2> SUFFICES ASSUME NEW u \in Thread \ {t}, Combining(u) PROVE CombinerOK(u)'
    BY <1>5, CCFrame DEF CombinerOK
  <2>1. loc'[u] = loc[u] /\ pc'[u] = pc[u] /\ CombinerOK(u) /\ cluster(u) \in Clusters /\ cluster(u)' = cluster(u)
    BY <1>0, <1>2, <1>3, <1>4, CCFrame
  <2>2. ASSUME pc[u] \in {"lock", "wait", "combine"}
        PROVE  ((loc[u].p = cur(u) /\ Unserved(u)) \/ Ahead(loc[u].p, cluster(u)))' /\ Alone(loc[u].p)'
    <3>1. PICK n \in CCNode : n = loc[u].p /\ Alone(n)
      BY <2>2, AtNode
    <3>2. (n = cur(u) /\ Unserved(u)) \/ Ahead(n, cluster(u))
      BY <2>1, <2>2, <3>1 DEF CombinerOK
    <3>3. (n = cur(u)' /\ Unserved(u)') \/ Ahead(n, cluster(u))'
      BY <1>4, <1>8, <1>9, <2>1, <3>2
    <3>4. Alone(n)' /\ loc'[u].p = n
      BY <1>9, <2>1, <3>1
    <3> QED
      BY <2>1, <3>3, <3>4
  <2>3. ASSUME pc[u] = "release"
        PROVE  /\ Completed(loc[u].p)'
               /\ \E w \in Thread : loc'[u].p = cur(w)' /\ cluster(w)' = cluster(u)' /\ (w = u \/ (Queued(w)' /\ Locked(cur(w))'))
    BY <1>1, <1>4, <1>5, <2>1, <2>3 DEF CombinerOK, Completed, Locked
  <2>4. ASSUME pc[u] = "advance"
        PROVE  \E w \in Thread :
                    \/ loc'[u].p = spare(w)'[2]
                    \/ /\ loc'[u].p = spare(w)'[1]
                       /\ Queued(w)' /\ Locked(cur(w))' /\ ~Completed(cur(w))'
    BY <1>1, <1>4, <1>5, <2>1, <2>4 DEF CombinerOK, Completed, Locked
  <2>5. ASSUME pc[u] \in {"release", "advance"}
        PROVE  Ahead(Following(u), cluster(u))' /\ Alone(Following(u))'
    <3>1. PICK n \in CCNode : n = Following(u) /\ Ahead(n, cluster(u)) /\ Alone(n)
      BY <2>1, <2>5, CCCur DEF CombinerOK
    <3>2. n = Following(u)'
      BY <1>1, <2>1, <3>1 DEF Following
    <3>3. Ahead(n, cluster(u))' /\ Alone(n)'
      BY <1>9, <2>1, <3>1
    <3> QED
      BY <3>2, <3>3
  <2> QED
    BY <2>1, <2>2, <2>3, <2>4, <2>5 DEF CombinerOK
<1>13. \A u \in Thread : Elected(u)' => Locked(Last(cluster(u)))'
  BY <1>0, <1>1, <1>4, <1>8, CCFrame DEF Locked
<1> QED
  BY <1>4, <1>6, <1>7, <1>8, <1>10, <1>11, <1>12, <1>13, CCFrame DEF CCInv

(* The combiner serves the request in a node: its owner is served, and the
   node after it is nobody else's to go to. *)
LEMMA CCServes ==
  ASSUME prog \in CCPrograms, prog' = prog, CCInv, NEW t \in Thread,
         (prog # "ccstack" /\ (CC!Help(t) \/ H!Help(t))) \/ (prog = "ccstack" /\ CCS!StackHelp(t))
  PROVE  CCInv'
<1> USE DEF CCInside, Combining
<1>0. /\ CCTypes /\ NodesOK /\ ChainOK /\ Spares \in {1, 2} /\ Spares' = Spares /\ CCNode' = CCNode /\ Clusters' = Clusters
      /\ Null \notin CCNode /\ (\A c \in Clusters : Last(c) \in CCNode) /\ \A u \in Thread : cluster(u) \in Clusters
  BY CCFrame
<1>1. PICK x :
        /\ pc' = [pc EXCEPT ![t] = "release"] /\ pc[t] = "combine" /\ UNCHANGED root
        /\ mem[loc[t].p].next # Null
        /\ mem' = [mem EXCEPT ![loc[t].p].arg_ret = x, ![loc[t].p].completed = TRUE]
        /\ \/ prog # "ccstack" /\ loc' = [loc EXCEPT ![t].counter = @ + 1, ![t].next = mem[loc[t].p].next]
           \/ prog = "ccstack" /\ loc' = [loc EXCEPT ![t].counter = @ + 1]
  <2>1. CASE prog # "ccstack" /\ (CC!Help(t) \/ H!Help(t))
    BY <2>1 DEF CC!Help, CC!CanHelp, CC!Go, CC!Null, H!Help, H!CanHelp, H!Go, H!Null, Null
  <2>2. CASE prog = "ccstack" /\ CCS!StackHelp(t)
    BY <2>2 DEF CCS!StackHelp, CCS!CanHelp, CCS!Go, CCS!Null, Null
  <2> QED
    BY <2>1, <2>2
<1>2. PICK n \in CCNode : n = loc[t].p /\ ~Completed(n) /\ Alone(n) /\ \A c \in Clusters : n # Last(c)
  BY <1>0, <1>1, AtNode DEF NodesOK
<1>3. PICK w \in Thread : n = cur(w) /\ cluster(w) = cluster(t) /\ Unserved(w) /\ (w = t \/ (Queued(w) /\ Locked(cur(w))))
  <2>1. loc[t].p # Last(cluster(t)) /\ pc[t] = "combine"
    BY <1>0, <1>1, <1>2
  <2>2. \E w \in Thread : /\ loc[t].p = cur(w) /\ cluster(w) = cluster(t) /\ Unserved(w)
                          /\ w = t \/ (Queued(w) /\ Locked(cur(w)))
    BY <2>1, AtNode
  <2> QED
    BY <1>2, <2>2
<1>4. pc'[t] = "release" /\ (\A u \in Thread \ {t} : pc'[u] = pc[u]) /\ pc' \in [Thread -> CCLabel]
  BY <1>0, <1>1 DEF CCTypes, CCLabel
<1>5. /\ DOMAIN mem' = CCNode
      /\ \A m \in CCNode : /\ DOMAIN mem'[m] = DOMAIN mem[m]
                           /\ mem'[m].locked = mem[m].locked /\ mem'[m].next = mem[m].next
      /\ \A m \in CCNode \ {n} : mem'[m].completed = mem[m].completed
      /\ mem'[n].completed = TRUE
  BY <1>0, <1>1, <1>2 DEF CCTypes
<1>6. /\ DOMAIN loc' = Thread /\ \A u \in Thread \ {t} : loc'[u] = loc[u]
      /\ DOMAIN loc'[t] = DOMAIN loc[t] /\ loc'[t].cluster = loc[t].cluster
      /\ loc'[t].cur = loc[t].cur /\ loc'[t].mine = loc[t].mine /\ loc'[t].spare = loc[t].spare
      /\ loc'[t].p = n
      /\ prog # "ccstack" => loc'[t].next = mem[n].next
  <2>1. CASE prog # "ccstack" /\ loc' = [loc EXCEPT ![t].counter = @ + 1, ![t].next = mem[loc[t].p].next]
    BY <1>0, <1>2, <2>1 DEF CCTypes
  <2>2. CASE prog = "ccstack" /\ loc' = [loc EXCEPT ![t].counter = @ + 1]
    BY <1>0, <1>2, <2>2 DEF CCTypes
  <2> QED
    BY <1>1, <2>1, <2>2
<1>7. /\ \A u \in Thread : spare(u)' = spare(u) /\ cur(u)' = cur(u) /\ loc'[u].mine = loc[u].mine /\ cluster(u)' = cluster(u)
      /\ \A c \in Clusters : Last(c)' = Last(c)
  BY <1>1, <1>6 DEF spare, cur, cluster, Last
<1>8. /\ \A u \in Thread : (Combining(u)' <=> Combining(u)) /\ (Queued(u)' <=> Queued(u))
      /\ Combining(t)
  BY <1>1, <1>4, CCFrame DEF Queued
<1>9. CCTypes'
  <2>1. \A u \in Thread : /\ DOMAIN loc'[u] = {"spare", "cluster", "mine", "cur", "p", "next", "counter"}
                          /\ cluster(u)' \in Clusters /\ spare(u)' \in [1..Spares' -> CCNode]
    BY <1>0, <1>6, <1>7 DEF CCTypes
  <2>2. prog' # "ccstack" => \A u \in Thread : pc'[u] # "advance"
    BY <1>0, <1>4 DEF CCTypes
  <2>3. \A m \in CCNode : /\ DOMAIN mem'[m] = {"next", "arg_ret", "locked", "completed", "owner"}
                          /\ mem'[m].locked \in BOOLEAN /\ mem'[m].completed \in BOOLEAN
    <3> TAKE m \in CCNode
    <3>1. CASE m = n
      BY <1>0, <1>5, <3>1 DEF CCTypes
    <3>2. CASE m # n
      BY <1>0, <1>5, <3>2 DEF CCTypes
    <3> QED
      BY <3>1, <3>2
  <2> QED
    BY <1>0, <1>1, <1>4, <1>5, <1>6, <2>1, <2>2, <2>3 DEF CCTypes
<1>10. NodesOK'
  <2>1. \A u \in Thread : pc'[u] # "idle" => pc[u] # "idle"
    BY <1>1, <1>4
  <2>2. \A c \in Clusters : mem'[Last(c)'].next = Null /\ ~Completed(Last(c))'
    BY <1>0, <1>2, <1>5, <1>7 DEF NodesOK, Completed
  <2> QED
    BY <1>0, <1>7, <2>1, <2>2 DEF NodesOK
<1>11. w \in Thread /\ (Queued(w) \/ Combining(w)) /\ n = cur(w)
  BY <1>3 DEF Unserved
<1>12. \A u \in Thread : (Queued(u) \/ Combining(u)) /\ cur(u) = n => u = w
  BY <1>11, CCCur
<1>13. \A u \in Thread : Unserved(u)' => Unserved(u) /\ u # w
  BY <1>5, <1>7, <1>8, <1>11, CCCur DEF Unserved, Completed
<1>14. \A u \in Thread : Elected(u)' => Elected(u)
  BY <1>3, <1>5, <1>7, <1>8, CCCur DEF Elected, Completed, Locked
<1>15. \A m \in CCNode, c \in Clusters : Ahead(m, c) /\ m # n => Ahead(m, c)'
  <2> SUFFICES ASSUME NEW m \in CCNode, NEW c \in Clusters, Ahead(m, c), m # n PROVE Ahead(m, c)'
    OBVIOUS
  <2>1. Locked(m)' /\ ~Completed(m)'
    BY <1>5 DEF Ahead, Locked, Completed
  <2> QED
    BY <1>7, <1>8, <2>1 DEF Ahead
<1>16. \A u \in Thread : Unserved(u) => Ahead(loc[u].mine, cluster(u)) /\ loc[u].mine \in CCNode \ {n}
  BY <1>0, <1>2, CCCur DEF ChainOK, Alone
<1>17. ChainOK'
  <2>1. \A u \in Thread : Unserved(u)' => Ahead(loc[u].mine, cluster(u))'
    <3>1. \A u \in Thread : Unserved(u) => \E m \in CCNode, c \in Clusters : m = loc'[u].mine /\ c = cluster(u) /\ Ahead(m, c)'
      BY <1>0, <1>7, <1>15, <1>16
    <3> QED
      BY <1>7, <1>13, <3>1
  <2>2. \A u, v \in Thread : Unserved(u)' /\ Unserved(v)' /\ loc'[u].mine = loc'[v].mine => u = v
    BY <1>0, <1>7, <1>13 DEF ChainOK
  <2>3. \A u \in Thread : Queued(u)' \/ Combining(u)' => mem'[cur(u)'].next \in {Null, loc'[u].mine}
    BY <1>0, <1>5, <1>7, <1>8, CCCur DEF ChainOK
  <2> QED
    BY <2>1, <2>2, <2>3 DEF ChainOK
<1>18. CombinerOK(t)'
  <2>1. PICK m \in CCNode : m = loc[w].mine /\ m # n /\ Ahead(m, cluster(t))
    BY <1>3, <1>16
  <2>2. mem[n].next = m
    BY <1>0, <1>1, <1>2, <1>11, <2>1 DEF ChainOK
  <2>3. Following(t)' = m
    BY <1>1, <1>2, <1>5, <1>6, <2>2 DEF Following
  <2>4. Ahead(m, cluster(t))'
    BY <1>0, <1>7, <1>15, <2>1
  <2>5. Alone(m)'
    BY <1>0, <1>3, <1>7, <1>13, <2>1 DEF Alone, ChainOK
  <2>6. Completed(loc[t].p)'
    BY <1>5, <1>6 DEF Completed
  <2>7. loc'[t].p = cur(w)' /\ cluster(w)' = cluster(t)' /\ (w = t \/ (Queued(w)' /\ Locked(cur(w))'))
    BY <1>3, <1>5, <1>6, <1>7, <1>8 DEF Locked
  <2> QED
    BY <1>4, <1>7, <2>3, <2>4, <2>5, <2>6, <2>7 DEF CombinerOK
<1>19. \A u \in Thread \ {t} : CombinerOK(u)'
  <2> SUFFICES ASSUME NEW u \in Thread \ {t}, Combining(u) PROVE CombinerOK(u)'
    BY <1>4, <1>8, CCFrame DEF CombinerOK
  <2>1. loc'[u] = loc[u] /\ pc'[u] = pc[u]
    BY <1>4, <1>6
  <2>2. \A m \in CCNode \ {loc[t].p} : mem'[m].locked = mem[m].locked /\ mem'[m].completed = mem[m].completed
    BY <1>2, <1>5
  <2> QED
    BY <1>1, <1>7, <1>8, <1>13, <2>1, <2>2, OtherCombiner
<1>20. \A u \in Thread : Elected(u)' => Locked(Last(cluster(u)))'
  BY <1>0, <1>5, <1>7, <1>14, CCFrame DEF Locked
<1> QED
  BY <1>7, <1>9, <1>10, <1>14, <1>17, <1>18, <1>19, <1>20, CCFrame DEF CCInv

(* A node that is unlocked after it was served is its owner's again. *)
LEMMA CCReleases ==
  ASSUME prog \in CCPrograms, prog' = prog, CCInv, NEW t \in Thread,
         (prog # "ccstack" /\ (CC!Release(t) \/ H!Release(t))) \/ (prog = "ccstack" /\ CCS!Unlock(t))
  PROVE  CCInv'
<1> USE DEF CCInside, Combining
<1>0. /\ CCTypes /\ NodesOK /\ ChainOK /\ Spares \in {1, 2} /\ Spares' = Spares /\ CCNode' = CCNode /\ Clusters' = Clusters
      /\ Null \notin CCNode /\ (\A c \in Clusters : Last(c) \in CCNode) /\ \A u \in Thread : cluster(u) \in Clusters
  BY CCFrame
<1>1. PICK l \in {"combine", "advance"} :
        /\ pc' = [pc EXCEPT ![t] = l] /\ pc[t] = "release" /\ UNCHANGED root
        /\ mem' = [mem EXCEPT ![loc[t].p].locked = FALSE]
        /\ \/ prog # "ccstack" /\ l = "combine" /\ loc' = [loc EXCEPT ![t].p = loc[t].next]
           \/ prog = "ccstack" /\ l = "advance" /\ loc' = loc
  <2>1. CASE prog # "ccstack" /\ (CC!Release(t) \/ H!Release(t))
    BY <2>1 DEF CC!Release, CC!Go, H!Release, H!Go
  <2>2. CASE prog = "ccstack" /\ CCS!Unlock(t)
    BY <2>2 DEF CCS!Unlock, CCS!Go
  <2> QED
    BY <2>1, <2>2
<1>2. PICK w \in Thread : loc[t].p = cur(w) /\ cluster(w) = cluster(t) /\ (w = t \/ (Queued(w) /\ Locked(cur(w))))
  BY <1>1, CCFrame DEF CombinerOK
<1>3. Combining(t) /\ pc[w] # "idle"
  BY <1>1, <1>2, CCFrame, CCCur
<1>4. PICK n \in CCNode : n = loc[t].p /\ n = cur(w) /\ Completed(n) /\ \A c \in Clusters : n # Last(c)
  BY <1>1, <1>2, <1>3, CCFrame, CCCur DEF CombinerOK
<1>5. pc'[t] = l /\ (\A u \in Thread \ {t} : pc'[u] = pc[u]) /\ pc' \in [Thread -> CCLabel]
  BY <1>0, <1>1 DEF CCTypes, CCLabel
<1>6. /\ DOMAIN mem' = CCNode
      /\ \A m \in CCNode : /\ DOMAIN mem'[m] = DOMAIN mem[m]
                           /\ mem'[m].completed = mem[m].completed /\ mem'[m].next = mem[m].next
      /\ \A m \in CCNode \ {n} : mem'[m].locked = mem[m].locked
      /\ mem'[n].locked = FALSE
  BY <1>0, <1>1, <1>4 DEF CCTypes
<1>7. /\ DOMAIN loc' = Thread /\ \A u \in Thread \ {t} : loc'[u] = loc[u]
      /\ DOMAIN loc'[t] = DOMAIN loc[t] /\ loc'[t].cluster = loc[t].cluster
      /\ loc'[t].cur = loc[t].cur /\ loc'[t].mine = loc[t].mine /\ loc'[t].spare = loc[t].spare
      /\ prog # "ccstack" => loc'[t].p = loc[t].next /\ l = "combine"
      /\ prog = "ccstack" => loc'[t].p = n /\ l = "advance"
  <2>1. CASE prog # "ccstack" /\ l = "combine" /\ loc' = [loc EXCEPT ![t].p = loc[t].next]
    BY <1>0, <1>4, <2>1 DEF CCTypes
  <2>2. CASE prog = "ccstack" /\ l = "advance" /\ loc' = loc
    BY <1>0, <1>4, <2>2 DEF CCTypes
  <2> QED
    BY <1>1, <2>1, <2>2
<1>8. /\ \A u \in Thread : spare(u)' = spare(u) /\ cur(u)' = cur(u) /\ loc'[u].mine = loc[u].mine /\ cluster(u)' = cluster(u)
      /\ \A c \in Clusters : Last(c)' = Last(c)
  BY <1>1, <1>7 DEF spare, cur, cluster, Last
<1>9. \A u \in Thread : (Combining(u)' <=> Combining(u)) /\ (Queued(u)' <=> Queued(u))
  BY <1>1, <1>5, CCFrame DEF Queued
<1>10. CCTypes'
  <2>1. \A u \in Thread : /\ DOMAIN loc'[u] = {"spare", "cluster", "mine", "cur", "p", "next", "counter"}
                          /\ cluster(u)' \in Clusters /\ spare(u)' \in [1..Spares' -> CCNode]
    BY <1>0, <1>7, <1>8 DEF CCTypes
  <2>2. prog' # "ccstack" => \A u \in Thread : pc'[u] # "advance"
    BY <1>0, <1>5, <1>7 DEF CCTypes
  <2>3. \A m \in CCNode : /\ DOMAIN mem'[m] = {"next", "arg_ret", "locked", "completed", "owner"}
                          /\ mem'[m].locked \in BOOLEAN /\ mem'[m].completed \in BOOLEAN
    <3> TAKE m \in CCNode
    <3>1. CASE m = n
      BY <1>0, <1>6, <3>1 DEF CCTypes
    <3>2. CASE m # n
      BY <1>0, <1>6, <3>2 DEF CCTypes
    <3> QED
      BY <3>1, <3>2
  <2> QED
    BY <1>0, <1>1, <1>5, <1>6, <1>7, <2>1, <2>2, <2>3 DEF CCTypes
<1>11. NodesOK'
  <2>1. \A u \in Thread : pc'[u] # "idle" => pc[u] # "idle"
    BY <1>1, <1>5
  <2>2. \A c \in Clusters : mem'[Last(c)'].next = Null /\ ~Completed(Last(c))'
    BY <1>0, <1>6, <1>8 DEF NodesOK, Completed
  <2> QED
    BY <1>0, <1>8, <2>1, <2>2 DEF NodesOK
<1>12. \A u \in Thread : (Unserved(u)' <=> Unserved(u)) /\ (Elected(u)' <=> Elected(u))
  <2> TAKE u \in Thread
  <2>1. Unserved(u)' <=> Unserved(u)
    BY <1>6, <1>8, <1>9, CCCur DEF Unserved, Completed
  <2>2. Queued(u) /\ ~Completed(cur(u)) => cur(u) \in CCNode \ {n}
    BY <1>4, CCCur
  <2>3. Elected(u)' <=> Elected(u)
    BY <1>6, <1>8, <1>9, <2>2, CCCur DEF Elected, Locked, Completed
  <2> QED
    BY <2>1, <2>3
<1>13. \A m \in CCNode : (\A c \in Clusters : Ahead(m, c) => Ahead(m, c)') /\ (Alone(m)' <=> Alone(m))
  <2> TAKE m \in CCNode
  <2>1. \A c \in Clusters : Ahead(m, c) => Locked(m)' /\ ~Completed(m)'
    BY <1>4, <1>6 DEF Ahead, Locked, Completed
  <2>2. \A c \in Clusters : Ahead(m, c) => Ahead(m, c)'
    BY <1>8, <1>9, <2>1 DEF Ahead
  <2>3. Alone(m)' <=> Alone(m)
    BY <1>8, <1>12 DEF Alone
  <2> QED
    BY <2>2, <2>3
<1>14. ChainOK'
  <2>1. \A u \in Thread : Unserved(u)' => Ahead(loc[u].mine, cluster(u))'
    <3>1. \A u \in Thread : Unserved(u) => \E m \in CCNode, c \in Clusters : m = loc'[u].mine /\ c = cluster(u) /\ Ahead(m, c)'
      BY <1>0, <1>8, <1>13, CCCur DEF ChainOK
    <3> QED
      BY <1>8, <1>12, <3>1
  <2>2. \A u, v \in Thread : Unserved(u)' /\ Unserved(v)' /\ loc'[u].mine = loc'[v].mine => u = v
    BY <1>0, <1>8, <1>12 DEF ChainOK
  <2>3. \A u \in Thread : Queued(u)' \/ Combining(u)' => mem'[cur(u)'].next \in {Null, loc'[u].mine}
    BY <1>0, <1>6, <1>8, <1>9, CCCur DEF ChainOK
  <2> QED
    BY <2>1, <2>2, <2>3 DEF ChainOK
<1>15. CombinerOK(t)'
  <2>1. PICK m \in CCNode : m = Following(t) /\ Ahead(m, cluster(t)) /\ Alone(m)
    BY <1>0, <1>1, CCFrame, CCCur DEF CombinerOK
  <2>2. Ahead(m, cluster(t))' /\ Alone(m)'
    BY <1>0, <1>8, <1>13, <2>1
  <2>3. CASE prog # "ccstack"
    <3>1. loc'[t].p = m /\ pc'[t] = "combine"
      BY <1>5, <1>7, <2>1, <2>3 DEF Following
    <3> QED
      BY <1>8, <2>2, <3>1 DEF CombinerOK
  <2>4. CASE prog = "ccstack"
    <3>1. Following(t)' = m /\ pc'[t] = "advance"
      BY <1>4, <1>5, <1>6, <1>7, <2>1, <2>4 DEF Following
    <3>2. Spares = 2
      BY <2>4 DEF Spares
    <3>3. loc'[t].p = spare(w)'[2]
      BY <1>0, <1>3, <1>4, <1>7, <1>8, <2>4, <3>2 DEF NodesOK
    <3> QED
      BY <1>8, <2>2, <3>1, <3>3 DEF CombinerOK
  <2> QED
    BY <2>3, <2>4
<1>16. \A u \in Thread \ {t} : CombinerOK(u)'
  <2> SUFFICES ASSUME NEW u \in Thread \ {t}, Combining(u) PROVE CombinerOK(u)'
    BY <1>5, <1>9, CCFrame DEF CombinerOK
  <2>1. loc'[u] = loc[u] /\ pc'[u] = pc[u]
    BY <1>5, <1>7
  <2>2. \A m \in CCNode \ {loc[t].p} : mem'[m].locked = mem[m].locked /\ mem'[m].completed = mem[m].completed
    BY <1>4, <1>6
  <2> QED
    BY <1>1, <1>8, <1>9, <1>12, <2>1, <2>2, OtherCombiner
<1>17. \A u \in Thread : Elected(u)' => Locked(Last(cluster(u)))'
  BY <1>0, <1>4, <1>6, <1>8, <1>12, CCFrame DEF Locked
<1> QED
  BY <1>8, <1>10, <1>11, <1>12, <1>14, <1>15, <1>16, <1>17, CCFrame DEF CCInv

(* ccstack: the combiner goes on to the node after the one it unlocked. *)
LEMMA CCAdvances ==
  ASSUME prog = "ccstack", prog' = prog, CCInv, NEW t \in Thread, CCS!Advance(t)
  PROVE  CCInv'
<1> USE DEF CCInside, Combining
<1>a. prog \in CCPrograms
  BY DEF CCPrograms
<1>0. /\ CCTypes /\ NodesOK /\ ChainOK /\ Spares \in {1, 2} /\ Spares' = Spares /\ CCNode' = CCNode /\ Clusters' = Clusters
      /\ Null \notin CCNode /\ (\A c \in Clusters : Last(c) \in CCNode) /\ \A u \in Thread : cluster(u) \in Clusters
  BY <1>a, CCFrame
<1>1. /\ pc' = [pc EXCEPT ![t] = "combine"] /\ pc[t] = "advance" /\ UNCHANGED <<mem, root>>
      /\ loc' = [loc EXCEPT ![t].p = mem[loc[t].p].next]
  BY DEF CCS!Advance, CCS!Go
<1>2. PICK n \in CCNode : n = mem[loc[t].p].next /\ Ahead(n, cluster(t)) /\ Alone(n)
  BY <1>a, <1>0, <1>1, CCFrame, CCCur DEF CombinerOK, Following
<1>3. pc'[t] = "combine" /\ (\A u \in Thread \ {t} : pc'[u] = pc[u]) /\ pc' \in [Thread -> CCLabel]
  BY <1>0, <1>1 DEF CCTypes, CCLabel
<1>4. /\ DOMAIN loc' = Thread /\ \A u \in Thread \ {t} : loc'[u] = loc[u]
      /\ DOMAIN loc'[t] = DOMAIN loc[t] /\ loc'[t].cluster = loc[t].cluster
      /\ loc'[t].cur = loc[t].cur /\ loc'[t].mine = loc[t].mine /\ loc'[t].spare = loc[t].spare
      /\ loc'[t].p = n
  BY <1>0, <1>1, <1>2 DEF CCTypes
<1>5. /\ \A u \in Thread : spare(u)' = spare(u) /\ cur(u)' = cur(u) /\ loc'[u].mine = loc[u].mine /\ cluster(u)' = cluster(u)
      /\ \A c \in Clusters : Last(c)' = Last(c)
  BY <1>1, <1>4 DEF spare, cur, cluster, Last
<1>6. /\ \A u \in Thread : (Combining(u)' <=> Combining(u)) /\ (Queued(u)' <=> Queued(u))
      /\ Combining(t)
  BY <1>a, <1>1, <1>3, CCFrame DEF Queued
<1>7. CCTypes'
  <2>1. \A u \in Thread : /\ DOMAIN loc'[u] = {"spare", "cluster", "mine", "cur", "p", "next", "counter"}
                          /\ cluster(u)' \in Clusters /\ spare(u)' \in [1..Spares' -> CCNode]
    BY <1>0, <1>4, <1>5 DEF CCTypes
  <2> QED
    BY <1>0, <1>1, <1>3, <1>4, <2>1 DEF CCTypes
<1>8. NodesOK'
  <2>1. \A u \in Thread : pc'[u] # "idle" => pc[u] # "idle"
    BY <1>1, <1>3
  <2> QED
    BY <1>0, <1>1, <1>5, <2>1 DEF NodesOK, Completed
<1>9. \A u \in Thread : (Unserved(u)' <=> Unserved(u)) /\ (Elected(u)' <=> Elected(u))
  BY <1>1, <1>5, <1>6 DEF Unserved, Elected, Completed, Locked
<1>10. \A m \in CCNode : (\A c \in Clusters : Ahead(m, c)' <=> Ahead(m, c)) /\ (Alone(m)' <=> Alone(m))
  <2> TAKE m \in CCNode
  <2>1. \A c \in Clusters : Ahead(m, c)' <=> Ahead(m, c)
    BY <1>1, <1>5, <1>6 DEF Ahead, Locked, Completed
  <2>2. Alone(m)' <=> Alone(m)
    BY <1>5, <1>9 DEF Alone
  <2> QED
    BY <2>1, <2>2
<1>11. ChainOK'
  <2>1. \A u \in Thread : Unserved(u)' => Ahead(loc[u].mine, cluster(u))'
    <3>1. \A u \in Thread : Unserved(u) => \E m \in CCNode, c \in Clusters : m = loc'[u].mine /\ c = cluster(u) /\ Ahead(m, c)'
      BY <1>a, <1>0, <1>5, <1>10, CCCur DEF ChainOK
    <3> QED
      BY <1>5, <1>9, <3>1
  <2>2. \A u, v \in Thread : Unserved(u)' /\ Unserved(v)' /\ loc'[u].mine = loc'[v].mine => u = v
    BY <1>0, <1>5, <1>9 DEF ChainOK
  <2>3. \A u \in Thread : Queued(u)' \/ Combining(u)' => mem'[cur(u)'].next \in {Null, loc'[u].mine}
    BY <1>0, <1>1, <1>5, <1>6 DEF ChainOK
  <2> QED
    BY <2>1, <2>2, <2>3 DEF ChainOK
<1>12. CombinerOK(t)'
  <2>1. Ahead(n, cluster(t))' /\ Alone(n)'
    BY <1>0, <1>2, <1>5, <1>10
  <2> QED
    BY <1>3, <1>4, <2>1 DEF CombinerOK
<1>13. \A u \in Thread : CombinerOK(u)'
  <2>1. \A u \in Thread : Combining(u) => u = t
    <3>1. \A u \in Thread : cluster(u) = cluster(t)
      BY <1>0 DEF Clusters, HPrograms
    <3> QED
      BY <1>a, <1>6, <3>1, CCFrame
  <2>2. \A u \in Thread \ {t} : ~Combining(u)'
    BY <1>6, <2>1
  <2> QED
    BY <1>12, <2>2 DEF CombinerOK
<1>14. \A u \in Thread : Elected(u)' => Locked(Last(cluster(u)))'
  BY <1>a, <1>1, <1>5, <1>9, CCFrame DEF Locked
<1> QED
  BY <1>a, <1>5, <1>7, <1>8, <1>9, <1>11, <1>13, <1>14, CCFrame DEF CCInv

(* The owner of the node the combiner stops at, and no one else, is the
   combiner now; or the next thread to come is. *)
LEMMA CCHandsOver ==
  ASSUME prog \in CCPrograms, prog' = prog, CCInv, NEW t \in Thread,
         CC!HandOver(t, "return") \/ CCS!HandOver(t, "return") \/ H!HandOver(t, "unlock")
  PROVE  CCInv'
<1> USE DEF CCInside, Combining
<1>0. /\ CCTypes /\ NodesOK /\ ChainOK /\ Spares \in {1, 2} /\ Spares' = Spares /\ CCNode' = CCNode /\ Clusters' = Clusters
      /\ Null \notin CCNode /\ (\A c \in Clusters : Last(c) \in CCNode) /\ \A u \in Thread : cluster(u) \in Clusters
  BY CCFrame
<1>1. /\ pc' = [pc EXCEPT ![t] = "return"] \/ pc' = [pc EXCEPT ![t] = "unlock"]
      /\ pc[t] = "combine" /\ UNCHANGED <<loc, root>>
      /\ mem' = [mem EXCEPT ![loc[t].p].locked = FALSE]
  BY DEF CC!HandOver, CC!Go, CCS!HandOver, CCS!Go, H!HandOver, H!Go
<1>2. PICK n \in CCNode : n = loc[t].p /\ ~Completed(n) /\ Alone(n)
  BY <1>1, AtNode
<1>3. Combining(t) /\ Locked(Last(cluster(t))) /\ \A u \in Thread \ {t} : cluster(u) = cluster(t) => ~Elected(u)
  BY <1>1, CCFrame
<1>4. pc'[t] \in {"return", "unlock"} /\ (\A u \in Thread \ {t} : pc'[u] = pc[u]) /\ pc' \in [Thread -> CCLabel]
  BY <1>0, <1>1 DEF CCTypes, CCLabel
<1>5. /\ DOMAIN mem' = CCNode
      /\ \A m \in CCNode : /\ DOMAIN mem'[m] = DOMAIN mem[m]
                           /\ mem'[m].completed = mem[m].completed /\ mem'[m].next = mem[m].next
      /\ \A m \in CCNode \ {n} : mem'[m].locked = mem[m].locked
      /\ mem'[n].locked = FALSE
  BY <1>0, <1>1, <1>2 DEF CCTypes
<1>6. /\ \A u \in Thread : spare(u)' = spare(u) /\ cur(u)' = cur(u)
      /\ \A u \in Thread : cluster(u)' = cluster(u) /\ loc'[u].mine = loc[u].mine
      /\ \A c \in Clusters : Last(c)' = Last(c)
  BY <1>1 DEF spare, cur, cluster, Last
<1>7. /\ \A u \in Thread \ {t} : (Combining(u)' <=> Combining(u)) /\ (Queued(u)' <=> Queued(u))
      /\ ~Combining(t)'
      /\ ~Queued(t) /\ ~Queued(t)'
  BY <1>1, <1>3, <1>4, CCFrame DEF Queued
<1>8. CCTypes'
  <2>1. \A m \in CCNode : /\ DOMAIN mem'[m] = {"next", "arg_ret", "locked", "completed", "owner"}
                          /\ mem'[m].locked \in BOOLEAN /\ mem'[m].completed \in BOOLEAN
    <3> TAKE m \in CCNode
    <3>1. CASE m = n
      BY <1>0, <1>5, <3>1 DEF CCTypes
    <3>2. CASE m # n
      BY <1>0, <1>5, <3>2 DEF CCTypes
    <3> QED
      BY <3>1, <3>2
  <2>2. prog' # "ccstack" => \A u \in Thread : pc'[u] # "advance"
    BY <1>0, <1>4 DEF CCTypes
  <2> QED
    <3>1. \A u \in Thread : /\ DOMAIN loc'[u] = {"spare", "cluster", "mine", "cur", "p", "next", "counter"}
                            /\ cluster(u)' \in Clusters /\ spare(u)' \in [1..Spares' -> CCNode]
      BY <1>0, <1>1, <1>6 DEF CCTypes
    <3> QED
      BY <1>0, <1>1, <1>4, <1>5, <2>1, <2>2, <3>1 DEF CCTypes
<1>9. NodesOK'
  <2>1. \A u \in Thread : pc'[u] # "idle" => pc[u] # "idle"
    BY <1>1, <1>4
  <2>2. \A c \in Clusters : mem'[Last(c)'].next = Null /\ ~Completed(Last(c))'
    BY <1>0, <1>5, <1>6 DEF NodesOK, Completed
  <2> QED
    BY <1>0, <1>6, <2>1, <2>2 DEF NodesOK
<1>10. \A u \in Thread : Unserved(u)' => Unserved(u)
  BY <1>5, <1>6, <1>7, CCCur DEF Unserved, Completed
<1>n. n = Last(cluster(t)) \/ \E w \in Thread : pc[w] # "idle" /\ n = cur(w) /\ cluster(w) = cluster(t)
  BY <1>1, <1>2, AtNode, CCCur DEF Unserved
<1>11. \A u \in Thread : Elected(u)' => (Elected(u) /\ cluster(u) # cluster(t))
                                     \/ (cur(u) = n /\ cluster(u) = cluster(t) /\ pc[u] # "idle")
  <2> TAKE u \in Thread
  <2> HAVE Elected(u)'
  <2>2. u # t /\ pc[u] # "idle" /\ cur(u) \in CCNode
    BY <1>7, CCCur DEF Elected
  <2>3. CASE cur(u) = n
    BY <1>0, <1>n, <2>2, <2>3, CCCur
  <2>4. CASE cur(u) # n
    <3>1. Elected(u)
      <4>1. Combining(u) \/ (Queued(u) /\ ~Locked(cur(u))' /\ ~Completed(cur(u))')
        BY <1>7, <2>2 DEF Elected
      <4> QED
        BY <1>5, <1>6, <2>2, <2>4, <4>1 DEF Elected, Locked, Completed
    <3>2. cluster(u) # cluster(t)
      BY <1>3, <2>2, <3>1
    <3> QED
      BY <3>1, <3>2
  <2> QED
    BY <2>3, <2>4
<1>12. \A m \in CCNode, c \in Clusters : Ahead(m, c) /\ m # n => Ahead(m, c)'
  <2> SUFFICES ASSUME NEW m \in CCNode, NEW c \in Clusters, Ahead(m, c), m # n PROVE Ahead(m, c)'
    OBVIOUS
  <2>1. Locked(m)' /\ ~Completed(m)'
    BY <1>5 DEF Ahead, Locked, Completed
  <2> QED
    BY <1>6, <1>7, <2>1 DEF Ahead
<1>13. ChainOK'
  <2>1. \A u \in Thread : Unserved(u)' => Ahead(loc[u].mine, cluster(u))'
    <3>1. \A u \in Thread : Unserved(u) => \E m \in CCNode, c \in Clusters : m = loc'[u].mine /\ c = cluster(u) /\ Ahead(m, c)'
      BY <1>0, <1>1, <1>2, <1>12, CCCur DEF ChainOK, Alone
    <3> QED
      BY <1>6, <1>10, <3>1
  <2>2. \A u, v \in Thread : Unserved(u)' /\ Unserved(v)' /\ loc'[u].mine = loc'[v].mine => u = v
    BY <1>0, <1>1, <1>10 DEF ChainOK
  <2>3. \A u \in Thread : Queued(u)' \/ Combining(u)' => mem'[cur(u)'].next \in {Null, loc'[u].mine}
    BY <1>0, <1>1, <1>5, <1>6, <1>7, CCCur DEF ChainOK
  <2> QED
    BY <2>1, <2>2, <2>3 DEF ChainOK
<1>14. \A u \in Thread : CombinerOK(u)'
  <2> SUFFICES ASSUME NEW u \in Thread, Combining(u)' PROVE CombinerOK(u)'
    BY DEF CombinerOK
  <2>1. u # t /\ Combining(u) /\ loc'[u] = loc[u] /\ pc'[u] = pc[u]
    BY <1>1, <1>4, <1>7
  <2>2. \A m \in CCNode \ {loc[t].p} : mem'[m].locked = mem[m].locked /\ mem'[m].completed = mem[m].completed
    BY <1>2, <1>5
  <2> QED
    BY <1>1, <1>6, <1>7, <1>10, <2>1, <2>2, OtherCombiner
<1>15. \A u, v \in Thread : Elected(u)' /\ Elected(v)' /\ cluster(u)' = cluster(v)' => u = v
  BY <1>6, <1>11, CCCur, CCFrame
<1>16. \A u \in Thread : Elected(u)' => Locked(Last(cluster(u)))'
  <2> SUFFICES ASSUME NEW u \in Thread, Elected(u)' PROVE Locked(Last(cluster(u)))'
    OBVIOUS
  <2>1. CASE Elected(u) /\ cluster(u) # cluster(t)
    <3>1. Locked(Last(cluster(u)))
      BY <2>1, CCFrame
    <3>2. n # Last(cluster(u))
      BY <1>0, <1>n, <2>1, CCCur DEF NodesOK
    <3> QED
      BY <1>0, <1>5, <1>6, <3>1, <3>2 DEF Locked
  <2>2. CASE cur(u) = n /\ cluster(u) = cluster(t) /\ pc[u] # "idle"
    <3>1. Locked(Last(cluster(u))) /\ n # Last(cluster(u))
      BY <1>0, <1>3, <2>2, CCCur
    <3> QED
      BY <1>0, <1>5, <1>6, <3>1 DEF Locked
  <2> QED
    BY <1>11, <2>1, <2>2
<1> QED
  BY <1>6, <1>8, <1>9, <1>13, <1>14, <1>15, <1>16 DEF CCInv

(* A return leaves the nodes as they are. *)
LEMMA CCReturns ==
  ASSUME prog \in CCPrograms, prog' = prog, CCInv, NEW t \in Thread, CC!ReturnResult(t) \/ CCS!ReturnResult(t) \/ H!ReturnResult(t)
  PROVE  CCInv'
<1> USE DEF CCInside, Combining
<1>0. /\ CCTypes /\ NodesOK /\ ChainOK /\ Spares \in {1, 2} /\ Spares' = Spares /\ CCNode' = CCNode /\ Clusters' = Clusters
      /\ Null \notin CCNode /\ (\A c \in Clusters : Last(c) \in CCNode) /\ \A u \in Thread : cluster(u) \in Clusters
  BY CCFrame
<1>1. /\ pc' = [pc EXCEPT ![t] = "idle"] /\ pc[t] = "return" /\ UNCHANGED <<mem, root>>
      /\ loc' = [loc EXCEPT ![t] = [spare |-> @.spare, cluster |-> @.cluster, mine |-> Null, cur |-> Null,
                                    p |-> Null, next |-> Null, counter |-> 0]]
  BY DEF CC!ReturnResult, CC!Return, CC!Go, CC!NoLocals, CC!Null, CCS!ReturnResult, CCS!Return, CCS!Go,
         CCS!NoLocals, CCS!Null, H!ReturnResult, H!Return, H!Go, H!NoLocals, H!Null, Null
<1>2. pc'[t] = "idle" /\ (\A u \in Thread \ {t} : pc'[u] = pc[u]) /\ pc' \in [Thread -> CCLabel]
  BY <1>0, <1>1 DEF CCTypes, CCLabel
<1>3. /\ DOMAIN loc' = Thread /\ \A u \in Thread \ {t} : loc'[u] = loc[u]
      /\ DOMAIN loc'[t] = {"spare", "cluster", "mine", "cur", "p", "next", "counter"}
      /\ loc'[t].cluster = loc[t].cluster /\ loc'[t].spare = loc[t].spare
  BY <1>0, <1>1 DEF CCTypes
<1>4. /\ \A u \in Thread : spare(u)' = spare(u)
      /\ \A u \in Thread \ {t} : cur(u)' = cur(u) /\ loc'[u].mine = loc[u].mine
      /\ \A u \in Thread : cluster(u)' = cluster(u)
      /\ \A c \in Clusters : Last(c)' = Last(c)
  BY <1>1, <1>3 DEF spare, cur, cluster, Last
<1>5. /\ \A u \in Thread : (Combining(u)' <=> Combining(u)) /\ (Queued(u)' <=> Queued(u))
      /\ ~Combining(t) /\ ~Queued(t)
  BY <1>1, <1>2, CCFrame DEF Queued
<1>6. CCTypes'
  <2>1. \A u \in Thread : /\ DOMAIN loc'[u] = {"spare", "cluster", "mine", "cur", "p", "next", "counter"}
                          /\ cluster(u)' \in Clusters /\ spare(u)' \in [1..Spares' -> CCNode]
    BY <1>0, <1>3, <1>4 DEF CCTypes
  <2>2. prog' # "ccstack" => \A u \in Thread : pc'[u] # "advance"
    BY <1>0, <1>2 DEF CCTypes
  <2> QED
    BY <1>0, <1>1, <1>2, <1>3, <2>1, <2>2 DEF CCTypes
<1>7. NodesOK'
  <2>1. \A u \in Thread : pc'[u] # "idle" => pc[u] # "idle" /\ u # t
    BY <1>1, <1>2
  <2> QED
    BY <1>0, <1>1, <1>4, <2>1 DEF NodesOK, Completed
<1>8. \A u \in Thread : (Unserved(u)' <=> Unserved(u)) /\ (Elected(u)' <=> Elected(u)) /\ (Unserved(u) => u # t)
  BY <1>1, <1>4, <1>5 DEF Unserved, Elected, Completed, Locked
<1>9. \A m \in CCNode : (\A c \in Clusters : Ahead(m, c)' <=> Ahead(m, c)) /\ (Alone(m)' <=> Alone(m))
  <2> TAKE m \in CCNode
  <2>1. \A c \in Clusters : Ahead(m, c)' <=> Ahead(m, c)
    BY <1>1, <1>4, <1>5 DEF Ahead, Locked, Completed
  <2>2. Alone(m)' <=> Alone(m)
    BY <1>4, <1>8 DEF Alone
  <2> QED
    BY <2>1, <2>2
<1>10. ChainOK'
  <2>1. \A u \in Thread : Unserved(u)' => Ahead(loc[u].mine, cluster(u))'
    <3>1. \A u \in Thread : Unserved(u) => \E m \in CCNode, c \in Clusters : m = loc'[u].mine /\ c = cluster(u) /\ Ahead(m, c)'
      BY <1>0, <1>4, <1>8, <1>9, CCCur DEF ChainOK
    <3> QED
      BY <1>4, <1>8, <3>1
  <2>2. \A u, v \in Thread : Unserved(u)' /\ Unserved(v)' /\ loc'[u].mine = loc'[v].mine => u = v
    BY <1>0, <1>4, <1>8 DEF ChainOK
  <2>3. \A u \in Thread : Queued(u)' \/ Combining(u)' => mem'[cur(u)'].next \in {Null, loc'[u].mine}
    BY <1>0, <1>1, <1>4, <1>5 DEF ChainOK
  <2> QED
    BY <2>1, <2>2, <2>3 DEF ChainOK
<1>11. \A u \in Thread : CombinerOK(u)'
  <2> SUFFICES ASSUME NEW u \in Thread, Combining(u) PROVE CombinerOK(u)'
    BY <1>5, CCFrame DEF CombinerOK
  <2>1. u # t /\ loc'[u] = loc[u] /\ pc'[u] = pc[u] /\ CombinerOK(u) /\ cluster(u) \in Clusters /\ cluster(u)' = cluster(u)
    BY <1>0, <1>2, <1>3, <1>4, <1>5, CCFrame
  <2>2. ASSUME pc[u] \in {"lock", "wait", "combine"}
        PROVE  ((loc[u].p = cur(u) /\ Unserved(u)) \/ Ahead(loc[u].p, cluster(u)))' /\ Alone(loc[u].p)'
    <3>1. PICK n \in CCNode : n = loc[u].p /\ Alone(n)
      BY <2>2, AtNode
    <3>2. (n = cur(u) /\ Unserved(u)) \/ Ahead(n, cluster(u))
      BY <2>1, <2>2, <3>1 DEF CombinerOK
    <3>3. (n = cur(u)' /\ Unserved(u)') \/ Ahead(n, cluster(u))'
      BY <1>4, <1>8, <1>9, <2>1, <3>2
    <3>4. Alone(n)' /\ loc'[u].p = n
      BY <1>9, <2>1, <3>1
    <3> QED
      BY <2>1, <3>3, <3>4
  <2>3. ASSUME pc[u] = "release"
        PROVE  /\ Completed(loc[u].p)'
               /\ \E w \in Thread : loc'[u].p = cur(w)' /\ cluster(w)' = cluster(u)' /\ (w = u \/ (Queued(w)' /\ Locked(cur(w))'))
    BY <1>1, <1>4, <1>5, <2>1, <2>3 DEF CombinerOK, Completed, Locked
  <2>4. ASSUME pc[u] = "advance"
        PROVE  \E w \in Thread :
                    \/ loc'[u].p = spare(w)'[2]
                    \/ /\ loc'[u].p = spare(w)'[1]
                       /\ Queued(w)' /\ Locked(cur(w))' /\ ~Completed(cur(w))'
    BY <1>1, <1>4, <1>5, <2>1, <2>4 DEF CombinerOK, Completed, Locked
  <2>5. ASSUME pc[u] \in {"release", "advance"}
        PROVE  Ahead(Following(u), cluster(u))' /\ Alone(Following(u))'
    <3>1. PICK n \in CCNode : n = Following(u) /\ Ahead(n, cluster(u)) /\ Alone(n)
      BY <2>1, <2>5, CCCur DEF CombinerOK
    <3>2. n = Following(u)'
      BY <1>1, <2>1, <3>1 DEF Following
    <3>3. Ahead(n, cluster(u))' /\ Alone(n)'
      BY <1>9, <2>1, <3>1
    <3> QED
      BY <2>1, <3>2, <3>3
  <2> QED
    BY <2>1, <2>2, <2>3, <2>4, <2>5 DEF CombinerOK
<1>12. \A u \in Thread : Elected(u)' => Locked(Last(cluster(u)))'
  BY <1>0, <1>1, <1>4, <1>8, CCFrame DEF Locked
<1> QED
  BY <1>4, <1>6, <1>7, <1>8, <1>10, <1>11, <1>12, CCFrame DEF CCInv

(* A combiner that queues for the lock, gets it or gives it back leaves the
   lists alone. *)
LEMMA CCTurns ==
  ASSUME prog \in HPrograms, prog' = prog, CCInv, NEW t \in Thread, NEW l,
         (pc[t] = "lock" /\ l = "wait") \/ (pc[t] = "wait" /\ l = "combine") \/ (pc[t] = "unlock" /\ l = "return"),
         pc' = [pc EXCEPT ![t] = l], UNCHANGED <<loc, mem>>, "Tail" \in DOMAIN root', root'.Tail = root.Tail
  PROVE  CCInv'
<1> USE DEF CCInside, Combining
<1>a. prog \in CCPrograms /\ prog # "ccstack"
  BY DEF CCPrograms, HPrograms
<1>0. /\ CCTypes /\ NodesOK /\ ChainOK /\ Spares \in {1, 2} /\ Spares' = Spares /\ CCNode' = CCNode /\ Clusters' = Clusters
      /\ Null \notin CCNode /\ (\A c \in Clusters : Last(c) \in CCNode) /\ \A u \in Thread : cluster(u) \in Clusters
  BY <1>a, CCFrame
<1>2. pc'[t] = l /\ (\A u \in Thread \ {t} : pc'[u] = pc[u]) /\ pc' \in [Thread -> CCLabel]
  BY <1>0 DEF CCTypes, CCLabel
<1>4. /\ \A u \in Thread : spare(u)' = spare(u) /\ cur(u)' = cur(u) /\ cluster(u)' = cluster(u)
      /\ \A c \in Clusters : Last(c)' = Last(c)
  BY DEF spare, cur, cluster, Last
<1>5. \A u \in Thread : (Combining(u)' <=> Combining(u)) /\ (Queued(u)' <=> Queued(u))
  BY <1>2 DEF Queued
<1>6. CCTypes'
  <2>1. \A u \in Thread : pc'[u] # "advance"
    BY <1>a, <1>0, <1>2 DEF CCTypes
  <2> QED
    BY <1>0, <1>2, <1>4, <2>1 DEF CCTypes
<1>7. NodesOK'
  <2>1. \A u \in Thread : pc'[u] # "idle" => pc[u] # "idle"
    BY <1>2
  <2> QED
    BY <1>0, <1>4, <2>1 DEF NodesOK, Completed
<1>8. \A u \in Thread : (Unserved(u)' <=> Unserved(u)) /\ (Elected(u)' <=> Elected(u))
  BY <1>4, <1>5 DEF Unserved, Elected, Completed, Locked
<1>9. \A m \in CCNode : (\A c \in Clusters : Ahead(m, c)' <=> Ahead(m, c)) /\ (Alone(m)' <=> Alone(m))
  <2> TAKE m \in CCNode
  <2>1. \A c \in Clusters : Ahead(m, c)' <=> Ahead(m, c)
    BY <1>4, <1>5 DEF Ahead, Locked, Completed
  <2>2. Alone(m)' <=> Alone(m)
    BY <1>4, <1>8 DEF Alone
  <2> QED
    BY <2>1, <2>2
<1>10. ChainOK'
  <2>1. \A u \in Thread : Unserved(u)' => Ahead(loc[u].mine, cluster(u))'
    <3>1. \A u \in Thread : Unserved(u) => \E m \in CCNode, c \in Clusters : m = loc'[u].mine /\ c = cluster(u) /\ Ahead(m, c)'
      BY <1>a, <1>0, <1>4, <1>9, CCCur DEF ChainOK
    <3> QED
      BY <1>4, <1>8, <3>1
  <2>2. \A u, v \in Thread : Unserved(u)' /\ Unserved(v)' /\ loc'[u].mine = loc'[v].mine => u = v
    BY <1>0, <1>4, <1>8 DEF ChainOK
  <2>3. \A u \in Thread : Queued(u)' \/ Combining(u)' => mem'[cur(u)'].next \in {Null, loc'[u].mine}
    BY <1>0, <1>4, <1>5 DEF ChainOK
  <2> QED
    BY <2>1, <2>2, <2>3 DEF ChainOK
<1>11. \A u \in Thread : CombinerOK(u)'
  <2> SUFFICES ASSUME NEW u \in Thread, Combining(u) PROVE CombinerOK(u)'
    BY <1>5, CCFrame DEF CombinerOK
  <2>1. CombinerOK(u) /\ cluster(u) \in Clusters /\ cluster(u)' = cluster(u) /\ pc'[u] # "advance"
    BY <1>a, <1>0, <1>4, <1>6, CCFrame DEF CCTypes
  <2>2. pc'[u] \in {"lock", "wait", "combine"} <=> pc[u] \in {"lock", "wait", "combine"}
    BY <1>2
  <2>3. pc'[u] = "release" <=> pc[u] = "release"
    BY <1>2
  <2>4. ASSUME pc[u] \in {"lock", "wait", "combine"}
        PROVE  ((loc[u].p = cur(u) /\ Unserved(u)) \/ Ahead(loc[u].p, cluster(u)))' /\ Alone(loc[u].p)'
    <3>1. PICK n \in CCNode : n = loc[u].p /\ Alone(n)
      BY <1>a, <2>4, AtNode
    <3>2. (n = cur(u) /\ Unserved(u)) \/ Ahead(n, cluster(u))
      BY <2>1, <2>4, <3>1 DEF CombinerOK
    <3>3. (n = cur(u)' /\ Unserved(u)') \/ Ahead(n, cluster(u))'
      BY <1>4, <1>8, <1>9, <2>1, <3>2
    <3>4. Alone(n)' /\ loc'[u].p = n
      BY <1>9, <2>1, <3>1
    <3> QED
      BY <2>1, <3>3, <3>4
  <2>5. ASSUME pc[u] = "release"
        PROVE  /\ Completed(loc[u].p)'
               /\ \E w \in Thread : loc'[u].p = cur(w)' /\ cluster(w)' = cluster(u)' /\ (w = u \/ (Queued(w)' /\ Locked(cur(w))'))
    BY <1>4, <1>5, <2>1, <2>5 DEF CombinerOK, Completed, Locked
  <2>6. ASSUME pc[u] = "release"
        PROVE  Ahead(Following(u), cluster(u))' /\ Alone(Following(u))'
    <3>1. PICK n \in CCNode : n = Following(u) /\ Ahead(n, cluster(u)) /\ Alone(n)
      BY <1>a, <2>1, <2>6, CCCur DEF CombinerOK
    <3>2. n = Following(u)'
      BY <2>1, <3>1 DEF Following
    <3>3. Ahead(n, cluster(u))' /\ Alone(n)'
      BY <1>9, <2>1, <3>1
    <3> QED
      BY <2>1, <3>2, <3>3
  <2> QED
    BY <2>1, <2>2, <2>3, <2>4, <2>5, <2>6 DEF CombinerOK
<1>12. \A u \in Thread : Elected(u)' => Locked(Last(cluster(u)))'
  BY <1>a, <1>0, <1>4, <1>8, CCFrame DEF Locked
<1> QED
  BY <1>a, <1>4, <1>6, <1>7, <1>8, <1>10, <1>11, <1>12, CCFrame DEF CCInv

(* Every step of the four programs is one of those above. *)
LEMMA CCKeeps ==
  ASSUME CCInv, NEW t \in Thread, prog' = prog,
         \/ prog = "ccuobject" /\ CC!CCStep(t)
         \/ prog = "ccstack" /\ CCS!CCStackStep(t)
         \/ prog \in HPrograms /\ H!HSynchStep(t)
  PROVE  CCInv'
<1>0. prog \in CCPrograms
  BY DEF CCPrograms
<1>1. CASE prog = "ccuobject" /\ CC!CCStep(t)
  <2>0. prog # "ccstack"
    BY <1>1
  <2>1. CASE CC!WriteRequest(t, "link1", "link2", call[t].arg)
    <3>1. /\ pc[t] = "link1" /\ pc' = [pc EXCEPT ![t] = "link2"] /\ UNCHANGED <<loc, root>>
          /\ mem' = [mem EXCEPT ![loc[t].cur].arg_ret = call[t].arg]
      BY <2>1 DEF CC!WriteRequest, CC!Go
    <3> QED
      BY <1>0, <3>1, CCWrites
  <2>2. CASE CC!LinkNode(t, "link2", "spin")
    <3>1. /\ pc[t] = "link2" /\ pc' = [pc EXCEPT ![t] = "spin"] /\ UNCHANGED <<loc, root>>
          /\ mem' = [mem EXCEPT ![loc[t].cur].next = loc[t].mine]
      BY <2>2 DEF CC!LinkNode, CC!Go
    <3> QED
      BY <1>0, <3>1, CCWrites
  <2> QED
    BY <1>0, <1>1, <2>0, <2>1, <2>2, CCAnnounce, CCSpin, CCServes, CCReleases, CCHandsOver, CCReturns DEF CC!CCStep
<1>2. CASE prog = "ccstack" /\ CCS!CCStackStep(t)
  <2>1. CASE CCS!LinkNode(t, "link1", "link2")
    <3>1. /\ pc[t] = "link1" /\ pc' = [pc EXCEPT ![t] = "link2"] /\ UNCHANGED <<loc, root>>
          /\ mem' = [mem EXCEPT ![loc[t].cur].next = loc[t].mine]
      BY <2>1 DEF CCS!LinkNode, CCS!Go
    <3> QED
      BY <1>0, <3>1, CCWrites
  <2>2. CASE CCS!WriteRequest(t, "link2", "spin", <<call[t].op>>)
    <3>1. /\ pc[t] = "link2" /\ pc' = [pc EXCEPT ![t] = "spin"] /\ UNCHANGED <<loc, root>>
          /\ mem' = [mem EXCEPT ![loc[t].cur].arg_ret = <<call[t].op>>]
      BY <2>2 DEF CCS!WriteRequest, CCS!Go
    <3> QED
      BY <1>0, <3>1, CCWrites
  <2> QED
    BY <1>0, <1>2, <2>1, <2>2, CCAnnounce, CCSpin, CCServes, CCReleases, CCAdvances, CCHandsOver, CCReturns
    DEF CCS!CCStackStep
<1>3. CASE prog \in HPrograms /\ H!HSynchStep(t)
  <2>0. prog # "ccstack" /\ CCTypes
    BY <1>3 DEF HPrograms, CCInv
  <2>1. CASE H!WriteRequest(t, "link1", "link2", call[t].arg)
    <3>1. /\ pc[t] = "link1" /\ pc' = [pc EXCEPT ![t] = "link2"] /\ UNCHANGED <<loc, root>>
          /\ mem' = [mem EXCEPT ![loc[t].cur].arg_ret = call[t].arg]
      BY <2>1 DEF H!WriteRequest, H!Go
    <3> QED
      BY <1>0, <3>1, CCWrites
  <2>2. CASE H!LinkNode(t, "link2", "spin")
    <3>1. /\ pc[t] = "link2" /\ pc' = [pc EXCEPT ![t] = "spin"] /\ UNCHANGED <<loc, root>>
          /\ mem' = [mem EXCEPT ![loc[t].cur].next = loc[t].mine]
      BY <2>2 DEF H!LinkNode, H!Go
    <3> QED
      BY <1>0, <3>1, CCWrites
  <2>3. CASE H!ClhLock(t, "lock", "wait") \/ H!ClhSpin(t, "wait", "combine") \/ H!ClhUnlock(t, "unlock", "return")
    <3>1. PICK l : /\ (pc[t] = "lock" /\ l = "wait") \/ (pc[t] = "wait" /\ l = "combine") \/ (pc[t] = "unlock" /\ l = "return")
                   /\ pc' = [pc EXCEPT ![t] = l] /\ UNCHANGED <<loc, mem>>
                   /\ root' = root \/ \E x : root' = [root EXCEPT !.clh = x]
      BY <2>3 DEF H!ClhLock, H!ClhSpin, H!ClhUnlock, H!Go
    <3>2. "Tail" \in DOMAIN root' /\ root'.Tail = root.Tail
      BY <2>0, <3>1 DEF CCTypes
    <3>3. /\ (pc[t] = "lock" /\ l = "wait") \/ (pc[t] = "wait" /\ l = "combine") \/ (pc[t] = "unlock" /\ l = "return")
          /\ pc' = [pc EXCEPT ![t] = l] /\ UNCHANGED <<loc, mem>>
      BY <3>1
    <3> QED
      BY <1>3, <3>2, <3>3, CCTurns
  <2> QED
    BY <1>0, <1>3, <2>0, <2>1, <2>2, <2>3, CCAnnounce, CCSpin, CCServes, CCReleases, CCHandsOver, CCReturns
    DEF H!HSynchStep
<1> QED
  BY <1>1, <1>2, <1>3

-----------------------------------------------------------------------------
(* All of them *)

(* At the start nobody is inside. *)
LEMMA NobodyInside ==
  ASSUME pc = [t \in Thread |-> "idle"]
  PROVE  \A t \in Thread : ~Critical(t)
<1>1. CASE prog \in {"ccuobject", "ccstack"}
  BY <1>1 DEF Critical
<1>2. CASE prog \in {"dsmuobject", "dsmstack"}
  BY <1>2 DEF Critical
<1>3. CASE prog \in {"huobject", "hstack"}
  BY <1>3 DEF Critical
<1>4. CASE prog \in {"locksuobject", "locksstack", "oyamauobject", "ccqueue", "locksqueue"}
  BY <1>4 DEF Critical
<1>5. CASE prog \notin {"ccuobject", "ccstack", "dsmuobject", "dsmstack", "huobject", "hstack", "oyamauobject",
                        "locksuobject", "locksstack", "ccqueue", "locksqueue"}
  BY <1>5 DEF Critical
<1> QED
  BY <1>1, <1>2, <1>3, <1>4, <1>5

(* The first states of each program satisfy its invariant. *)
LEMMA OyamaStarts ==
  ASSUME NEW n, Oy!OyamaInit(n)
  PROVE  prog = "oyamauobject" /\ OyamaInv
<1>1. /\ prog = "oyamauobject" /\ pc = [t \in Thread |-> "idle"]
      /\ root = [lock |-> "UNLOCKED", tail |-> Oy!Null]
  BY DEF Oy!OyamaInit, Oy!SynchInit, Oy!Thread, Thread
<1> QED
  BY <1>1, NobodyInside DEF OyamaInv, OyamaLabel, Inside

(* ccqueue and locksqueue start with both locks free. *)
LEMMA TwoLockStarts ==
  ASSUME NEW q \in {"ccqueue", "locksqueue"}, NEW n, Tlq!TwoLockInit(q, n)
  PROVE  prog = q /\ TwoLockInv
<1>1. /\ prog = q /\ pc = [t \in Thread |-> "idle"]
      /\ call = [t \in Thread |-> Tlq!Object!Idle]
      /\ root = [first |-> Tlq!Guard, last |-> Tlq!Guard, enq |-> Tlq!Null, deq |-> Tlq!Null]
  BY DEF Tlq!TwoLockInit, Tlq!SynchInit, Tlq!Thread, Thread
<1>2. DOMAIN Tlq!Object!Idle = {"st", "op", "arg", "ret"}
  BY DEF Tlq!Object!Idle
<1> QED
  BY <1>1, <1>2, NobodyInside DEF TwoLockInv, TwoLockLabel, Inside

(* The flag of the last node is clear, and nobody waits. *)
LEMMA ClhStarts ==
  ASSUME pc = [t \in Thread |-> "idle"], "clh" \in DOMAIN root,
         clh = [Tail   |-> N_THREADS,
                MyNode |-> [t \in Thread |-> t],
                MyPred |-> [t \in Thread |-> Null],
                locked |-> [a \in 0 .. N_THREADS |-> FALSE]]
  PROVE  ClhInv
<1>1. \A t \in Thread : t \in ClhNode /\ t # N_THREADS
  BY SynchAssumption DEF Thread, ClhNode
<1>2. N_THREADS \in ClhNode
  BY SynchAssumption DEF ClhNode
<1>3. ClhTypes
  BY <1>1, <1>2 DEF ClhTypes, ClhNode, LocksLabel
<1>4. \A t \in Thread : ~InLock(t) /\ ~HasLock(t)
  BY NobodyInside DEF InLock, HasLock
<1>5. \A t \in Thread : Owned(t) = t
  BY <1>4 DEF Owned
<1> QED
  BY <1>1, <1>3, <1>4, <1>5 DEF ClhInv

(* locksuobject and locksstack start with the CLH lock free. *)
LEMMA LocksStart ==
  ASSUME NEW q, NEW n, Clh!LocksInit(q, n)
  PROVE  prog = q /\ ClhInv
<1>1. /\ prog = q /\ pc = [t \in Thread |-> "idle"] /\ "clh" \in DOMAIN root
      /\ clh = [Tail   |-> N_THREADS,
                MyNode |-> [t \in Thread |-> t],
                MyPred |-> [t \in Thread |-> Null],
                locked |-> [a \in 0 .. N_THREADS |-> FALSE]]
  BY DEF Clh!LocksInit, Clh!SynchInit, Clh!ClhInit, Clh!Thread, Clh!Null, Thread, Null, clh
<1> QED
  BY <1>1, ClhStarts

(* huobject and hstack start with the central lock free. *)
LEMMA HSynchStarts ==
  ASSUME NEW q, NEW n, H!HSynchInit(q, n)
  PROVE  prog = q /\ ClhInv
<1>1. prog = q /\ pc = [t \in Thread |-> "idle"]
  BY DEF H!HSynchInit, H!CCNodes, H!SynchInit, H!Thread, Thread
<1>2. /\ "clh" \in DOMAIN root
      /\ clh = [Tail   |-> N_THREADS,
                MyNode |-> [t \in Thread |-> t],
                MyPred |-> [t \in Thread |-> Null],
                locked |-> [a \in 0 .. N_THREADS |-> FALSE]]
  BY DEF H!HSynchInit, H!ClhInit, H!Thread, H!Null, Thread, Null, clh
<1> QED
  BY <1>1, <1>2, ClhStarts

(* No node is in use, and there is no last one. *)
LEMMA DSMStarts ==
  ASSUME NEW q \in {"dsmuobject", "dsmstack"}, NEW n, DSM!DSMInit(q, n)
  PROVE  prog = q /\ DSMInv
<1>1. /\ prog = q /\ pc = [t \in Thread |-> "idle"]
      /\ loc = [t \in Thread |-> [toggle |-> 0, p |-> Null, counter |-> 0]]
      /\ mem = [a \in DSMNode |-> [next |-> Null, arg |-> <<"garbage">>, ret |-> <<"garbage">>, locked |-> FALSE,
                                   completed |-> FALSE, pid |-> Null]]
      /\ root = [Tail |-> Null]
  BY DEF DSM!DSMInit, DSM!SynchInit, DSM!Thread, DSM!Null, Thread, Null, DSMNode
<1>2. \A t \in Thread : ~Critical(t)
  BY <1>1, NobodyInside
<1>3. DSMTypes
  BY <1>1, <1>2 DEF DSMTypes, DSMLabel
<1>4. \A t \in Thread : ~Chosen(t) /\ ServedOK(t)
  BY <1>1, <1>2 DEF Chosen, ServedOK
<1>5. LineOK
  BY <1>1, SynchAssumption DEF LineOK, DSMNode, Null
<1> QED
  BY <1>1, <1>3, <1>4, <1>5 DEF DSMInv

(* How the lists start: k of them, and home says which one a thread belongs to. *)
CCInitial(k, home) ==
  /\ pc = [t \in Thread |-> "idle"]
  /\ loc = [t \in Thread |->
              [spare |-> IF prog = "ccstack" THEN <<2 * t, 2 * t + 1>> ELSE <<2 * t>>,
               cluster |-> home[t], mine |-> Null, cur |-> Null, p |-> Null, next |-> Null, counter |-> 0]]
  /\ mem = [a \in 0 .. 2 * N_THREADS + (k - 1) |->
              [next |-> Null, arg_ret |-> <<"garbage">>, locked |-> FALSE, completed |-> FALSE, owner |-> Null]]
  /\ "Tail" \in DOMAIN root /\ root.Tail = [c \in 0 .. k - 1 |-> 2 * N_THREADS + c]

(* Every thread has its own nodes, and the last ones are nobody's. *)
LEMMA CCStarts ==
  ASSUME NEW k \in {1, 2}, NEW home \in [Thread -> 0 .. k - 1], prog \in CCPrograms,
         k = 2 <=> prog \in HPrograms, CCInitial(k, home)
  PROVE  CCInv
<1>1. \A t \in Thread : t \in 0 .. N_THREADS - 1
  BY DEF Thread
<1>2. Clusters = 0 .. k - 1 /\ CCNode = 0 .. 2 * N_THREADS + (k - 1)
  <2>1. CASE k = 1
    BY <2>1, SynchAssumption DEF Clusters, CCNode
  <2>2. CASE k = 2
    BY <2>2, SynchAssumption DEF Clusters, CCNode
  <2> QED
    BY <2>1, <2>2
<1>3. /\ \A c \in Clusters : 2 * N_THREADS + c \in CCNode /\ Last(c) = 2 * N_THREADS + c
      /\ \A t \in Thread : ~Combining(t) /\ ~Queued(t)
  BY <1>2, SynchAssumption DEF CCInitial, Last, Queued, Combining, CCInside
<1>4. Spares \in {1, 2} /\ \A t \in Thread : /\ spare(t)[1] = 2 * t
                                             /\ Spares = 2 => spare(t)[2] = 2 * t + 1
                                             /\ spare(t) \in [1..Spares -> CCNode]
  <2>1. \A t \in Thread : 2 * t \in CCNode /\ 2 * t + 1 \in CCNode
    BY <1>1, <1>2, SynchAssumption
  <2>2. CASE prog = "ccstack"
    <3>1. Spares = 2 /\ \A t \in Thread : spare(t) = <<2 * t, 2 * t + 1>>
      BY <2>2 DEF Spares, spare, CCInitial
    <3> QED
      BY <2>1, <3>1
  <2>3. CASE prog # "ccstack"
    <3>1. Spares = 1 /\ \A t \in Thread : spare(t) = <<2 * t>>
      BY <2>3 DEF Spares, spare, CCInitial
    <3> QED
      BY <2>1, <3>1
  <2> QED
    BY <2>2, <2>3
<1>5. CCTypes
  <2>1. \A t \in Thread : /\ DOMAIN loc[t] = {"spare", "cluster", "mine", "cur", "p", "next", "counter"}
                          /\ cluster(t) \in Clusters
    BY <1>2 DEF cluster, CCInitial
  <2>2. root.Tail \in [Clusters -> CCNode]
    BY <1>2, <1>3 DEF CCInitial
  <2> QED
    BY <1>2, <1>4, <2>1, <2>2 DEF CCTypes, CCLabel, CCInitial
<1>6. NodesOK
  <2>0. \A t \in Thread, i \in 1..Spares : i \in {1, 2} /\ spare(t)[i] = 2 * t + (i - 1)
    <3> TAKE t \in Thread, i \in 1..Spares
    <3>1. i = 1 \/ (i = 2 /\ Spares = 2)
      BY <1>4
    <3>2. t \in Nat /\ 2 * t + (1 - 1) = 2 * t /\ 2 * t + (2 - 1) = 2 * t + 1
      BY <1>1
    <3> QED
      BY <1>4, <3>1, <3>2
  <2>1. \A t, u \in Thread, i, j \in 1..Spares : spare(t)[i] = spare(u)[j] => t = u /\ i = j
    <3> TAKE t, u \in Thread, i, j \in 1..Spares
    <3>0. i \in {1, 2} /\ j \in {1, 2}
      BY <2>0
    <3>1. t \in Nat /\ u \in Nat /\ i \in {1, 2} /\ j \in {1, 2}
      BY <1>1, <3>0
    <3>2. 2 * t + (i - 1) = 2 * u + (j - 1) => t = u /\ i = j
      <4>1. i - j \in {0 - 1, 0, 1} /\ (i - j = 0 <=> i = j)
        BY <3>1
      <4> QED
        BY <3>1, <4>1
    <3> QED
      BY <2>0, <3>2
  <2>2. \A t \in Thread, i \in 1..Spares, c \in Clusters : spare(t)[i] # Last(c)
    <3> TAKE t \in Thread, i \in 1..Spares, c \in Clusters
    <3>1. t \in 0 .. N_THREADS - 1 /\ i \in {1, 2} /\ c \in {0, 1} /\ N_THREADS \in Nat
      BY <1>1, <1>2, <2>0, SynchAssumption
    <3>2. 2 * t + (i - 1) # 2 * N_THREADS + c
      BY <3>1
    <3> QED
      BY <1>3, <2>0, <3>2
  <2>3. \A c, d \in Clusters : Last(c) = Last(d) => c = d
    BY <1>2, <1>3, SynchAssumption
  <2> QED
    BY <1>2, <1>3, <2>1, <2>2, <2>3 DEF NodesOK, Completed, CCInitial
<1>7. \A t \in Thread : ~Unserved(t) /\ ~Elected(t) /\ CombinerOK(t)
  BY <1>3 DEF Unserved, Elected, CombinerOK, Combining, CCInside
<1>8. ChainOK
  BY <1>3, <1>7 DEF ChainOK
<1> QED
  BY <1>5, <1>6, <1>7, <1>8 DEF CCInv

(* ccuobject starts with one spare node per thread and an empty last one. *)
LEMMA CCObjectStarts ==
  ASSUME NEW n, CC!CCInit(n)
  PROVE  prog = "ccuobject" /\ CCInv
<1>1. prog = "ccuobject" /\ pc = [t \in Thread |-> "idle"]
  BY DEF CC!CCInit, CC!CCNodes, CC!SynchInit, CC!Thread, Thread
<1>5. [w \in Thread |-> 0] \in [Thread -> 0 .. 1 - 1]
  OBVIOUS
<1>4. \A t \in Thread : t % 1 = 0
  BY SynchAssumption DEF Thread
<1>2. loc = [t \in Thread |->
               [spare |-> IF prog = "ccstack" THEN <<2 * t, 2 * t + 1>> ELSE <<2 * t>>,
                cluster |-> [w \in Thread |-> 0][t], mine |-> Null, cur |-> Null, p |-> Null, next |-> Null, counter |-> 0]]
  BY <1>1, <1>4 DEF CC!CCInit, CC!CCNodes, CC!NoLocals, CC!Null, Null, CC!Thread, Thread
<1>3. /\ mem = [a \in 0 .. 2 * N_THREADS + (1 - 1) |->
                  [next |-> Null, arg_ret |-> <<"garbage">>, locked |-> FALSE, completed |-> FALSE, owner |-> Null]]
      /\ "Tail" \in DOMAIN root /\ root.Tail = [c \in 0 .. 1 - 1 |-> 2 * N_THREADS + c]
  BY DEF CC!CCInit, CC!CCNodes, CC!Tails, CC!TailNode, CC!NewNode, CC!Null, Null
<1>6. prog \in CCPrograms /\ (1 = 2 <=> prog \in HPrograms) /\ CCInitial(1, [w \in Thread |-> 0])
  BY <1>1, <1>2, <1>3 DEF CCInitial, CCPrograms, HPrograms
<1> QED
  BY <1>1, <1>5, <1>6, CCStarts

(* ccstack starts with two spare nodes per thread and an empty last one. *)
LEMMA CCStackStarts ==
  ASSUME NEW n, CCS!CCStackInit(n)
  PROVE  prog = "ccstack" /\ CCInv
<1>1. prog = "ccstack" /\ pc = [t \in Thread |-> "idle"]
  BY DEF CCS!CCStackInit, CCS!CCNodes, CCS!SynchInit, CCS!Thread, Thread
<1>5. [w \in Thread |-> 0] \in [Thread -> 0 .. 1 - 1]
  OBVIOUS
<1>4. \A t \in Thread : t % 1 = 0
  BY SynchAssumption DEF Thread
<1>2. loc = [t \in Thread |->
               [spare |-> IF prog = "ccstack" THEN <<2 * t, 2 * t + 1>> ELSE <<2 * t>>,
                cluster |-> [w \in Thread |-> 0][t], mine |-> Null, cur |-> Null, p |-> Null, next |-> Null, counter |-> 0]]
  BY <1>1, <1>4 DEF CCS!CCStackInit, CCS!CCNodes, CCS!NoLocals, CCS!Null, Null, CCS!Thread, Thread
<1>3. /\ mem = [a \in 0 .. 2 * N_THREADS + (1 - 1) |->
                  [next |-> Null, arg_ret |-> <<"garbage">>, locked |-> FALSE, completed |-> FALSE, owner |-> Null]]
      /\ "Tail" \in DOMAIN root /\ root.Tail = [c \in 0 .. 1 - 1 |-> 2 * N_THREADS + c]
  BY DEF CCS!CCStackInit, CCS!CCNodes, CCS!Tails, CCS!TailNode, CCS!NewNode, CCS!Null, Null
<1>6. prog \in CCPrograms /\ (1 = 2 <=> prog \in HPrograms) /\ CCInitial(1, [w \in Thread |-> 0])
  BY <1>1, <1>2, <1>3 DEF CCInitial, CCPrograms, HPrograms
<1> QED
  BY <1>1, <1>5, <1>6, CCStarts

(* huobject and hstack start with an empty last node per cluster. *)
LEMMA HListStarts ==
  ASSUME NEW q \in HPrograms, NEW n, H!HSynchInit(q, n)
  PROVE  prog = q /\ CCInv
<1>1. prog = q /\ pc = [t \in Thread |-> "idle"]
  BY DEF H!HSynchInit, H!CCNodes, H!SynchInit, H!Thread, Thread
<1>2. loc = [t \in Thread |->
               [spare |-> IF prog = "ccstack" THEN <<2 * t, 2 * t + 1>> ELSE <<2 * t>>,
                cluster |-> [w \in Thread |-> w % 2][t], mine |-> Null, cur |-> Null, p |-> Null, next |-> Null, counter |-> 0]]
  BY <1>1 DEF H!HSynchInit, H!HSYNCH_NCLUSTERS, H!CCNodes, H!NoLocals, H!Null, Null, H!Thread, Thread, HPrograms
<1>3. /\ mem = [a \in 0 .. 2 * N_THREADS + (2 - 1) |->
                  [next |-> Null, arg_ret |-> <<"garbage">>, locked |-> FALSE, completed |-> FALSE, owner |-> Null]]
      /\ "Tail" \in DOMAIN root /\ root.Tail = [c \in 0 .. 2 - 1 |-> 2 * N_THREADS + c]
  BY DEF H!HSynchInit, H!HSYNCH_NCLUSTERS, H!CCNodes, H!Tails, H!TailNode, H!NewNode, H!Null, Null
<1>4. [w \in Thread |-> w % 2] \in [Thread -> 0 .. 2 - 1]
  BY SynchAssumption DEF Thread
<1>5. prog \in CCPrograms /\ (2 = 2 <=> prog \in HPrograms) /\ CCInitial(2, [w \in Thread |-> w % 2])
  BY <1>1, <1>2, <1>3 DEF CCInitial, CCPrograms, HPrograms
<1> QED
  BY <1>1, <1>4, <1>5, CCStarts

(* The invariant of all: at the start, when nothing changes, and at each step. *)
LEMMA SynchStarts == ProgramsInit => SynchInv
<1> SUFFICES ASSUME ProgramsInit PROVE SynchInv
  OBVIOUS
<1>1. PICK name \in Programs : SynchProgram(name) \/ (name \in Lists /\ ListInit(name))
  BY DEF ProgramsInit
<1>2. CASE name \in Lists /\ ListInit(name)
  <2>1. prog = name
    BY <1>2 DEF ListInit, SynchInit
  <2> QED
    BY <1>2, <2>1 DEF SynchInv, Lists, CCPrograms, HPrograms
<1>3. CASE name = "ccuobject" /\ CC!CCInit(Load[name])
  BY <1>3, CCObjectStarts DEF SynchInv, CCPrograms
<1>4. CASE name = "ccstack" /\ CCS!CCStackInit(Load[name])
  BY <1>4, CCStackStarts DEF SynchInv, CCPrograms
<1>5. CASE name \in {"dsmuobject", "dsmstack"} /\ DSM!DSMInit(name, Load[name])
  BY <1>5, DSMStarts DEF SynchInv, CCPrograms, HPrograms
<1>6. CASE name \in {"huobject", "hstack"} /\ H!HSynchInit(name, Load[name])
  BY <1>6, HSynchStarts, HListStarts DEF SynchInv, HPrograms
<1>7. CASE name = "oyamauobject" /\ Oy!OyamaInit(Load[name])
  BY <1>7, OyamaStarts DEF SynchInv, CCPrograms, HPrograms
<1>8. CASE name \in {"locksuobject", "locksstack"} /\ Clh!LocksInit(name, Load[name])
  BY <1>8, LocksStart DEF SynchInv, CCPrograms, HPrograms
<1>9. CASE name \in {"ccqueue", "locksqueue"} /\ Tlq!TwoLockInit(name, Load[name])
  BY <1>9, TwoLockStarts DEF SynchInv, CCPrograms, HPrograms
<1>10. CASE \/ name \in {"lfobject", "lfstack"} /\ Lf!LockFreeInit(name, Load[name])
            \/ name \in {"sim", "simstack"} /\ Sim!PSimInit(name, Load[name])
            \/ name = "simqueue" /\ \E n \in SimQueueLoads : Sq!SimQueueInit(n)
  <2>1. prog \in {"lfobject", "lfstack", "sim", "simstack", "simqueue"}
    BY <1>10 DEF Lf!LockFreeInit, Lf!SynchInit, Sim!PSimInit, Sim!SimSides, Sim!SynchInit,
                 Sq!SimQueueInit, Sq!SimSides, Sq!SynchInit
  <2> QED
    BY <2>1 DEF SynchInv, CCPrograms, HPrograms
<1> QED
  BY <1>1, <1>2, <1>3, <1>4, <1>5, <1>6, <1>7, <1>8, <1>9, <1>10 DEF SynchProgram

(* A step that changes nothing keeps the invariants. *)
LEMMA SynchStutters ==
  ASSUME SynchInv, UNCHANGED vars
  PROVE  SynchInv'
<1>1. /\ prog' = prog /\ pc' = pc /\ loc' = loc /\ mem' = mem /\ root' = root /\ call' = call
      /\ \A t \in Thread : Critical(t)' <=> Critical(t)
  BY DEF vars, Critical
<1>2. OyamaInv => OyamaInv'
  BY <1>1 DEF OyamaInv, Inside
<1>3. TwoLockInv => TwoLockInv'
  BY <1>1 DEF TwoLockInv, Inside
<1>4. ClhInv => ClhInv'
  BY <1>1 DEF ClhInv, ClhTypes, HasLock, Owned, InLock, clh
<1>5. DSMInv => DSMInv'
  <2>1. DSMTypes => DSMTypes'
    BY <1>1 DEF DSMTypes
  <2>2. \A t \in Thread : /\ Chosen(t)' <=> Chosen(t)
                          /\ Mine(t)' = Mine(t) /\ Other(t)' = Other(t)
    BY <1>1 DEF Chosen, Mine, Other, Locked, Completed
  <2>3. \A n \in DSMNode : (Waits(n)' <=> Waits(n)) /\ (InLine(n)' <=> InLine(n))
    BY <1>1, <2>2 DEF Waits, InLine, Inside, Locked, Completed
  <2>4. LineOK => LineOK'
    BY <1>1, <2>3 DEF LineOK
  <2>5. \A t \in Thread : ServedOK(t) => ServedOK(t)'
    BY <1>1, <2>2, <2>3 DEF ServedOK, Locked, Completed
  <2> QED
    BY <1>1, <2>1, <2>2, <2>4, <2>5 DEF DSMInv, Locked, Completed
<1>6. CCInv => CCInv'
  <2>1. CCTypes => CCTypes'
    BY <1>1 DEF CCTypes, Spares, spare, cluster, Clusters, CCNode
  <2>2. NodesOK => NodesOK'
    BY <1>1 DEF NodesOK, Spares, spare, cur, Last, Clusters, Completed
  <2>3. /\ Clusters' = Clusters /\ \A c : Last(c)' = Last(c)
        /\ \A t \in Thread : /\ Unserved(t)' <=> Unserved(t)
                             /\ Elected(t)' <=> Elected(t)
                             /\ Queued(t)' <=> Queued(t)
                             /\ cur(t)' = cur(t) /\ spare(t)' = spare(t) /\ cluster(t)' = cluster(t) /\ Following(t)' = Following(t)
    BY <1>1 DEF Unserved, Elected, Combining, Queued, cur, spare, cluster, Locked, Completed, Last, Following, Clusters
  <2>4. \A n : (\A c : Ahead(n, c)' <=> Ahead(n, c)) /\ (Alone(n)' <=> Alone(n))
    BY <1>1, <2>3 DEF Ahead, Alone, Locked, Completed
  <2>5. ChainOK => ChainOK'
    <3>1. \A t \in Thread : Ahead(loc[t].mine, cluster(t))' <=> Ahead(loc[t].mine, cluster(t))
      BY <1>1, <2>3, <2>4
    <3>2. \A t \in Thread : Combining(t)' <=> Combining(t)
      BY <1>1 DEF Combining
    <3> QED
      BY <1>1, <2>3, <3>1, <3>2 DEF ChainOK
  <2>6. \A t \in Thread : CombinerOK(t) => CombinerOK(t)'
    BY <1>1, <2>3, <2>4 DEF CombinerOK, Locked, Completed
  <2> QED
    BY <1>1, <2>1, <2>2, <2>3, <2>5, <2>6 DEF CCInv, Locked
<1> QED
  BY <1>1, <1>2, <1>3, <1>4, <1>5, <1>6 DEF SynchInv

(* Every step of every program keeps the invariants. *)
LEMMA SynchKeeps == SynchInv /\ [ProgramsNext]_allVars => SynchInv'
<1> SUFFICES ASSUME SynchInv, [ProgramsNext]_allVars PROVE SynchInv'
  OBVIOUS
<1>1. CASE prog \in Lists
  <2>1. prog' = prog
    <3>1. CASE ProgramsNext
      BY <3>1 DEF ProgramsNext, Step, ListCall
    <3>2. CASE UNCHANGED allVars
      BY <3>2 DEF allVars, vars
    <3> QED
      BY <3>1, <3>2
  <2> QED
    BY <1>1, <2>1 DEF SynchInv, Lists, CCPrograms, HPrograms
<1>2. CASE prog \notin Lists /\ UNCHANGED vars
  BY <1>2, SynchStutters
<1>3. CASE prog \notin Lists /\ ~UNCHANGED vars
  <2>1. PICK t \in Thread : SynchStep(t)
    BY <1>3, ProgramStep
  <2>2. prog' = prog
    BY <1>3, ProgramStep
  <2>3. CASE prog \in {"ccuobject", "ccstack"}
    BY <2>1, <2>2, <2>3, CCKeeps DEF SynchInv, SynchStep, CCPrograms, HPrograms
  <2>4. CASE prog \in {"dsmuobject", "dsmstack"}
    BY <2>1, <2>2, <2>4, DSMKeeps DEF SynchInv, SynchStep, DSMPrograms, CCPrograms, HPrograms
  <2>5. CASE prog \in {"huobject", "hstack"}
    BY <2>1, <2>2, <2>5, HSynchKeeps, CCKeeps DEF SynchInv, SynchStep, CCPrograms, HPrograms
  <2>6. CASE prog = "oyamauobject"
    BY <2>1, <2>2, <2>6, OyamaKeeps DEF SynchInv, SynchStep, CCPrograms, HPrograms
  <2>7. CASE prog \in {"locksuobject", "locksstack"}
    BY <2>1, <2>2, <2>7, LocksKeep DEF SynchInv, SynchStep, CCPrograms, HPrograms
  <2>8. CASE prog \in {"ccqueue", "locksqueue"}
    BY <2>1, <2>2, <2>8, TwoLockKeeps DEF SynchInv, SynchStep, CCPrograms, HPrograms
  <2>9. CASE prog \notin {"ccuobject", "ccstack", "dsmuobject", "dsmstack", "huobject", "hstack", "oyamauobject",
                          "locksuobject", "locksstack", "ccqueue", "locksqueue"}
    BY <2>2, <2>9 DEF SynchInv, CCPrograms, HPrograms
  <2> QED
    BY <2>3, <2>4, <2>5, <2>6, <2>7, <2>8, <2>9
<1> QED
  BY <1>1, <1>2, <1>3

(* In each family the invariant leaves at most one thread inside, in the queues
   at most one at each end. *)
LEMMA OneInside == SynchInv => MutualExclusion
<1> SUFFICES ASSUME SynchInv, NEW t \in Thread, NEW u \in Thread, t # u, Critical(t), Critical(u)
             PROVE  prog \in Queues /\ call[t].op # call[u].op
  BY DEF MutualExclusion
<1>1. prog \in {"ccuobject", "ccstack", "dsmuobject", "dsmstack", "huobject", "hstack", "oyamauobject",
                "locksuobject", "locksstack", "ccqueue", "locksqueue"}
  BY DEF Critical
<1>2. prog # "oyamauobject"
  BY DEF SynchInv, OyamaInv, Inside
<1>3. prog \notin {"locksuobject", "locksstack", "huobject", "hstack"}
  BY DEF SynchInv, ClhInv, HasLock
<1>4. prog \notin {"dsmuobject", "dsmstack"}
  BY DEF SynchInv, DSMInv, Chosen
<1>5. prog \notin {"ccuobject", "ccstack"}
  <2> SUFFICES ASSUME prog \in {"ccuobject", "ccstack"} PROVE FALSE
    OBVIOUS
  <2>1. Elected(t) /\ Elected(u)
    BY DEF Elected, Combining, CCInside, Critical
  <2>2. cluster(t) = cluster(u) /\ CCInv
    BY DEF SynchInv, CCPrograms, CCInv, CCTypes, Clusters, HPrograms
  <2> QED
    BY <2>1, <2>2 DEF CCInv
<1>6. prog \in {"ccqueue", "locksqueue"} => call[t].op # call[u].op
  BY DEF SynchInv, TwoLockInv, Inside
<1> QED
  BY <1>1, <1>2, <1>3, <1>4, <1>5, <1>6 DEF Queues

(* However many threads there are, and whatever the combiner leaves to the
   next one and when, no two threads run the serial code of an object at a
   time: not in ccuobject.c, ccstack.c, dsmuobject.c, dsmstack.c, huobject.c,
   hstack.c, oyamauobject.c, locksuobject.c or locksstack.c; and in the queues
   ccqueue.c and locksqueue.c no two work at the same end. *)
THEOREM LocksExclude == ProgramsSpec => []MutualExclusion
<1>1. ProgramsInit => SynchInv
  BY SynchStarts
<1>2. SynchInv /\ [ProgramsNext]_allVars => SynchInv'
  BY SynchKeeps
<1>3. SynchInv => MutualExclusion
  BY OneInside
<1> QED
  BY <1>1, <1>2, <1>3, PTL DEF ProgramsSpec
=============================================================================
