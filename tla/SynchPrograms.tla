---------------------------- MODULE SynchPrograms ----------------------------
(***************************************************************************)
(* The programs of synch1.0.1, one at a time: prog says which one runs, and *)
(* nothing is shared between them but the harness of module Synch. The two *)
(* queues of the servers, the list of MSQueue (msqueue.c of the library is *)
(* the same code) and the rings of LCRQ, are programs like the others;     *)
(* they have state and history of their own, and the harness only idles.   *)
(***************************************************************************)
EXTENDS Synch, TLC
CONSTANTS HelpBound, CounterStart, \* of CCSynch and DSMSynch
          LOCAL_POOL_SIZE,         \* of PSim
          Programs,                \* the programs to run
          Load,                    \* per program: how often each thread calls
          SimQueueLoads,           \* for simqueue: several of these, Load being the most
          Stopped                  \* the threads that may stop in a lock-free program
CONSTANTS Puts,                          \* per enqueuer: the values it may put
          Enqueuer, Dequeuer, Value,     \* of MSQueue and LCRQ
          Node, Dummy, NULL, MergedReads, EMPTY, RingSize, Refresh, Patience, CloseTries,
          MaxDraws, MaxCalls

\* A pool has 16 records in the code. With two, a thread that is slow to look
\* at the record it read would find one that its owner is writing again.
ASSUME SynchProgramsAssumption ==
  /\ LOCAL_POOL_SIZE \in Nat /\ LOCAL_POOL_SIZE > 2
  /\ \A name \in Programs : Load[name] \in [Thread -> Nat]
  /\ "simqueue" \in Programs => \A n \in SimQueueLoads : /\ n \in [Thread -> Nat]
                                                       /\ \A t \in Thread : n[t] <= Load["simqueue"][t]

VARIABLES head, tail, wasEmpty, \* of MSQueue and LCRQ
          next, val, used, p, first, last, nxt, value, order, rings, arg, my, put, before

CC  == INSTANCE CCSynch
CCS == INSTANCE CCStack
DSM == INSTANCE DSMSynch
H   == INSTANCE HSynch
Clh == INSTANCE CLHLock
Oy  == INSTANCE Oyama
Lf  == INSTANCE LockFree
Sim == INSTANCE PSim
Sq  == INSTANCE SimQueue
Tlq == INSTANCE TwoLockQueue
Ms  == INSTANCE MSQueue
Lq  == INSTANCE LCRQ

harness  == <<loc, mem, root, obj, call, got, runs>>
msVars   == <<next, val, used, p, first, last, nxt, value, order>>
lcrqVars == <<rings, arg, my, put, before>>
listVars == <<head, tail, wasEmpty>>
allVars  == <<vars, listVars, msVars, lcrqVars>>
Lists    == {"msqueue", "lcrq"}

NoList == head = Null /\ tail = Null /\ wasEmpty = Null
NoMs   == /\ next = Null /\ val = Null /\ used = Null /\ p = Null /\ first = Null
          /\ last = Null /\ nxt = Null /\ value = Null /\ order = Null
NoLcrq == rings = Null /\ arg = Null /\ my = Null /\ put = Null /\ before = Null
ListInit(q) == /\ SynchInit(q, [t \in Thread |-> 0])
               /\ loc = Null /\ mem = Null /\ root = Null
               /\ IF q = "msqueue" THEN Ms!Init /\ NoLcrq ELSE Lq!Init /\ NoMs
MsStep(t)   == /\ \/ t \in Enqueuer /\ Ms!Enqueuing(t)
                  \/ t \in Dequeuer /\ Ms!Dequeuing(t)
               /\ Ms!Remember
MsCall(t)   == /\ \/ t \in Enqueuer /\ \E v \in Puts[t] : Ms!EnqueueCall(t, v)
                  \/ t \in Dequeuer /\ Ms!DequeueCall(t)
               /\ Ms!Remember
LcrqStep(t) == \/ t \in Enqueuer /\ Lq!EnqueueStep(t)
               \/ t \in Dequeuer /\ Lq!DequeueStep(t)
LcrqCall(t) == /\ \/ t \in Enqueuer /\ \E v \in Puts[t] : Lq!EnqueueCall(t, v)
                  \/ t \in Dequeuer /\ Lq!DequeueCall(t) /\ UNCHANGED <<arg, put, before>>
               /\ Lq!Remember

SynchProgram(name) ==
  \/ name = "ccuobject" /\ CC!CCInit(Load[name])
  \/ name = "ccstack" /\ CCS!CCStackInit(Load[name])
  \/ name \in {"dsmuobject", "dsmstack"} /\ DSM!DSMInit(name, Load[name])
  \/ name \in {"huobject", "hstack"} /\ H!HSynchInit(name, Load[name])
  \/ name = "oyamauobject" /\ Oy!OyamaInit(Load[name])
  \/ name \in {"locksuobject", "locksstack"} /\ Clh!LocksInit(name, Load[name])
  \/ name \in {"lfobject", "lfstack"} /\ Lf!LockFreeInit(name, Load[name])
  \/ name \in {"sim", "simstack"} /\ Sim!PSimInit(name, Load[name])
  \/ name = "simqueue" /\ \E n \in SimQueueLoads : Sq!SimQueueInit(n)
  \/ name \in {"ccqueue", "locksqueue"} /\ Tlq!TwoLockInit(name, Load[name])

ProgramsInit == \E name \in Programs :
  \/ SynchProgram(name) /\ NoList /\ NoMs /\ NoLcrq
  \/ name \in Lists /\ ListInit(name)

SynchStep(t) ==
  \/ prog = "ccuobject" /\ CC!CCStep(t)
  \/ prog = "ccstack" /\ CCS!CCStackStep(t)
  \/ prog \in {"dsmuobject", "dsmstack"} /\ DSM!DSMStep(t)
  \/ prog \in {"huobject", "hstack"} /\ H!HSynchStep(t)
  \/ prog = "oyamauobject" /\ Oy!OyamaStep(t)
  \/ prog \in {"locksuobject", "locksstack"} /\ Clh!LocksStep(t)
  \/ prog \in {"lfobject", "lfstack"} /\ Lf!LockFreeStep(t)
  \/ prog \in {"sim", "simstack"} /\ Sim!PSimStep(t)
  \/ prog = "simqueue" /\ Sq!SimQueueStep(t)
  \/ prog \in {"ccqueue", "locksqueue"} /\ Tlq!TwoLockStep(t)

\* What thread t does; in msqueue and lcrq a call may begin at any time.
Step(t) == /\ UNCHANGED prog
           /\ \/ SynchStep(t) /\ UNCHANGED <<listVars, msVars, lcrqVars>>
              \/ prog = "msqueue" /\ MsStep(t) /\ UNCHANGED <<harness, lcrqVars>>
              \/ prog = "lcrq" /\ LcrqStep(t) /\ UNCHANGED <<harness, msVars>>
ListCall(t) == /\ UNCHANGED <<prog, harness>>
               /\ \/ prog = "msqueue" /\ MsCall(t) /\ UNCHANGED lcrqVars
                  \/ prog = "lcrq" /\ LcrqCall(t) /\ UNCHANGED msVars

ProgramsNext == \E t \in Thread : Step(t) \/ ListCall(t)
ProgramsSpec == ProgramsInit /\ [][ProgramsNext]_allVars

\* The scheduler runs every thread, but in a program that promises progress
\* whatever the others do, a thread may stop for ever.
MayStop(t) == /\ prog \in {"lfobject", "lfstack", "sim", "simstack", "simqueue", "msqueue", "lcrq"}
              /\ t \in Stopped
FairPrograms == /\ ProgramsSpec
                /\ \A t \in Thread : WF_allVars(~MayStop(t) /\ Step(t))

-----------------------------------------------------------------------------
(* Properties *)

SynchTypeOK ==
  /\ prog \in Programs
  /\ prog \notin Lists =>
       \A t \in Thread : /\ call[t].st \in {"idle", "asked", "done"}
                         /\ call[t].st = "idle" <=> pc[t] = "idle"
                         /\ runs[t] \in 0 .. Load[prog][t]
  /\ prog \in Stacks \cup Queues =>
       \A i \in DOMAIN obj : \E t \in Thread : obj[i] \in {<<"arg", t, k>> : k \in 1 .. Load[prog][t]}

(* The lock each combining algorithm makes out of its list is one: no two
   threads run the serial code at a time (applyOp of ccsynch.h, dsmsynch.h,
   hsynch.h and oyama.h, clhLock). The queues have one lock for each end. *)
Critical(t) ==
  CASE prog \in {"ccuobject", "ccstack"} -> pc[t] \in {"combine", "release", "advance"}
    [] prog \in {"dsmuobject", "dsmstack"} -> pc[t] \in {"help", "release", "advance", "close"}
    [] prog \in {"huobject", "hstack"} -> pc[t] \in {"combine", "release", "unlock"}
    [] prog = "oyamauobject" -> pc[t] \in {"sweep", "help", "complete", "unlock"}
    [] prog \in {"locksuobject", "locksstack"} -> pc[t] \in {"critical", "unlock"}
    [] prog \in {"ccqueue", "locksqueue"} -> pc[t] \in {"append", "swing", "take", "unlock"}
    [] OTHER -> FALSE
MutualExclusion ==
  \A t, u \in Thread : t # u /\ Critical(t) /\ Critical(u) => prog \in Queues /\ call[t].op # call[u].op

(* What README:39-90 of synch1.0.1 says of every program: it simulates an
   atomic object. *)
SimulatesAtomicObject == Object!AtomicSpec

(* Each request takes effect exactly once, between its call and its return,
   whoever serves it and however often its node, its record or its place on
   the list is used again. In three of the stacks a combiner may run the wrong
   operation: its own one for the request of another thread, or the one before
   in a node whose request is not written yet. For simqueue.c, where an empty
   dequeue takes effect before the swap, see ChainStaysWhole; MSQueue and LCRQ
   have refinements of their own. *)
WrongOperation == {"dsmstack", "hstack", "ccstack"} \* dsmsynch.h:106, hsynch.h:108, ccstack.h:94
Exempt == prog \in {"simqueue"} \cup WrongOperation \cup Lists
Abstract == INSTANCE AtomicObject WITH
  obj  <- IF Exempt THEN <<>> ELSE obj,
  call <- IF Exempt THEN [t \in Thread |-> Object!Idle] ELSE call
AtomicRefinement == Abstract!AtomicSpec

(* A call returns the result its own request was due, which another thread may
   have computed and left in a node or a record that is used again. Four
   results are not what is due, whatever the interleaving. *)
WrongResult == {<<"simstack", "pop">>,   \* simstack.c:206 returns -1
                <<"locksstack", "pop">>, \* locksstack.c:48 returns the value under the top
                <<"ccqueue", "deq">>,    \* ccqueue.c:51 returns the value of the old guard
                <<"simqueue", "deq">>}   \* simqueue.c:287 writes to ret[i], not ret[proc_id]
ReturnsItsResult ==
  [][~Exempt => \A t \in Thread :
       pc[t] # "idle" /\ pc'[t] = "idle" /\ <<prog, call[t].op>> \notin WrongResult
         => call[t].st = "done" /\ got'[t] = call[t].ret]_allVars

(* The list from the node the dequeues have reached, with the batch that is
   installed but perhaps not linked yet, holds the values enqueued and not
   taken, in order: a batch is linked once and in its place, though the
   winner, an enqueuer and a dequeuer may all link it. One step can break
   this: connectQueue reads enq_sp, the owner of that record goes round its
   pool and begins to write it again, and only then does connectQueue copy
   it (simqueue.c:160) and link what it copied. *)
ChainStaysWhole ==
  /\ prog = "simqueue" => Sq!QueueIsChain
  /\ [][prog = "simqueue" /\ Sq!QueueIsChain =>
          Sq!QueueIsChain' \/ \E t \in Thread : Sq!LinksLate(t)]_allVars

(* simqueue.c tells a dequeue that the queue is empty only if it was, at a
   moment while the dequeue was running. *)
EmptyIsHonest ==
  [][prog = "simqueue" => \A t \in Thread :
       call[t].op = "deq" /\ pc[t] = "swap" /\ pc'[t] = "fetch" => loc[t].none \subseteq loc[t].bare]_allVars

(* Every call returns: in the blocking programs if every thread runs, in the
   others although some stop (a thread is helped after two tries in sim.c).
   oyamauobject.c is the exception: a thread that announces its request after
   the combiner found the list empty, and tries the lock before the combiner
   releases it, waits with its request on the list and the lock free. *)
Stranded(t) == prog = "oyamauobject" /\ pc[t] = "wait" /\ ~mem[t].completed /\ root.lock = "UNLOCKED"
CallsReturn == \A t \in Thread : pc[t] # "idle" ~> pc[t] = "idle" \/ MayStop(t) \/ Stranded(t)
=============================================================================
