------------------------------- MODULE HSynch ------------------------------
(***************************************************************************)
(* hsynch.h under huobject.c and hstack.c: one CC-Synch list per cluster   *)
(* of threads (pid % HSYNCH_NCLUSTERS); the combiners of the clusters take *)
(* turns by the central CLH lock.                                          *)
(***************************************************************************)
EXTENDS CCSynch, CLHLock

HSYNCH_NCLUSTERS == 2

HSynchInit(p, n) == /\ CCNodes(p, n, [t \in Thread |-> <<2 * t>>], HSYNCH_NCLUSTERS)
                    /\ root = [Tail |-> Tails(HSYNCH_NCLUSTERS), clh |-> ClhInit]

HSynchStep(t) ==
  \/ Announce(t)
  \/ WriteRequest(t, "link1", "link2", call[t].arg) \/ LinkNode(t, "link2", "spin")
  \/ Spin(t, "lock") \/ ClhLock(t, "lock", "wait") \/ ClhSpin(t, "wait", "combine")
  \/ Help(t) \/ Release(t) \/ HandOver(t, "unlock")
  \/ ClhUnlock(t, "unlock", "return") \/ ReturnResult(t)
=============================================================================
