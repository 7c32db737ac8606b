----------------------------- MODULE FutexServer -----------------------------
(***************************************************************************)
(* The whole of http-server-futex.c: the main thread and the pool of       *)
(* LockedServer on the queue of FutexQueue, with the handler of HttpHandler *)
(* where LockedServer has one step. A SIGINT also ends the futex wait of a *)
(* worker.                                                                 *)
(***************************************************************************)
EXTENDS FutexQueue, LockedServer

CONSTANT MaxBlocks \* of HttpHandler
VARIABLE rq        \* of HttpHandler

ASSUME MaxBlocksAssumption == MaxBlocks \in Nat

Http == INSTANCE HttpHandler

serverAll == <<allVars, futexVars, rq>>

FutexServerInit == ServerInit /\ FutexInit /\ Http!HandlerInit

\* Inside queue_put, queue_get and queue_destroy.
InsideFutex(t) ==
  /\ \/ /\ \/ PutLock(t) \/ PutAppend(t) \/ PutCount(t)
           \/ GetLock(t) \/ GetRemove(t) \/ GetFree(t)
           \/ DestroyLock(t) \/ DestroyFree(t) \/ DestroyEnd(t)
        /\ UNCHANGED futexVars
     \/ GetUnlock(t) \/ WaitRead(t) \/ WaitSleep(t) \/ BroadcastFutex(t)
  /\ UNCHANGED <<serverVars, rq>>

\* In handleConnection, with an open connection.
Serving(w) == At(w, "got") /\ sock[w] # POISON /\ fd[sock[w]] = "open"

\* A silent client sends its request line and then nothing. (One that sends not
\* even that differs in the line where the worker waits.)
Blocked(w) == rq[w].at = "headers" /\ sock[w] \in Silent

HandleRequest(w) ==
  /\ Serving(w)
  /\ ~Blocked(w)
  /\ Http!HandlerStep(w)
  /\ UNCHANGED <<allVars, futexVars>>

CloseConnection(w) ==
  /\ Serving(w)
  /\ Http!Close(w)
  /\ SetFd(sock[w], "free")
  /\ GetReturn(w)
  /\ UNCHANGED <<mpc, poisoned, worker, flag_term, signals, failures, futexVars>>

\* The client closed the connection in the middle of its request.
ClientCloses(w) ==
  /\ Serving(w)
  /\ Http!ReadFails(w)
  /\ UNCHANGED <<allVars, futexVars>>

\* SIGINT interrupts fgets, or the futex wait.
SigintInFgets(w) ==
  /\ Serving(w)
  /\ CleanupHandler
  /\ Http!ReadFails(w)
  /\ UNCHANGED <<vars, mpc, poisoned, worker, fd, failures, futexVars>>
SigintInWait(w) ==
  /\ At(w, "get_wait")
  /\ CleanupHandler
  /\ sleepers' = sleepers \ {w}
  /\ Goto(w, "get_lock")
  /\ UNCHANGED <<msg, sock, mutex, listVars, spurious, exited, mpc, poisoned, worker, fd, failures, futexVars, rq>>

MainStepFutex ==
  \/ (PutPoison \/ EndOfPoison \/ Join \/ ReturnFromMain) /\ UNCHANGED <<futexVars, rq>>
  \/ InsideFutex(Main)
WorkerStepFutex(w) ==
  \/ (WorkerGet(w) \/ Open(w) \/ Poisoned(w)) /\ UNCHANGED <<futexVars, rq>>
  \/ InsideFutex(w) \/ HandleRequest(w) \/ CloseConnection(w)
EnvironmentFutex ==
  \/ /\ \/ \E c \in Conn : Accept(c)
        \/ AcceptFails \/ SigintInAccept \/ SigintElsewhere
        \/ \E w \in Worker : PeerGone(w) \/ FdopenFails(w)
     /\ UNCHANGED <<futexVars, rq>>
  \/ \E w \in Worker : ClientCloses(w) \/ SigintInFgets(w) \/ SigintInWait(w)

FutexServerNext == MainStepFutex \/ (\E w \in Worker : WorkerStepFutex(w)) \/ EnvironmentFutex
FutexServerSpec == FutexServerInit /\ [][FutexServerNext]_serverAll

(* Every thread runs; clients, signals and failures come as they like. *)
FairFutexServer == /\ FutexServerSpec
                   /\ WF_serverAll(MainStepFutex)
                   /\ \A w \in Worker : WF_serverAll(WorkerStepFutex(w))

-----------------------------------------------------------------------------
(* Properties *)

FutexServerTypeOK == FutexTypeOK /\ ServerDataTypeOK /\ Http!HandlerTypeOK

(* A worker that does not come back for more: it is gone by a failed fdopen,
   keeps waiting for a silent client, or sleeps and was passed over. *)
Stuck(w) == \/ Dead(w) /\ failures > 0
            \/ At(w, "got") /\ sock[w] \in Silent
            \/ w \in sleepers \cap missed

(* The client is answered as HttpHandler says, by whichever worker. *)
AnswerIsDue == Http!AnswerIsDue

(* What the lost wake-ups of the queue cost the server: an accepted connection
   is taken up by a worker, or every worker is stuck at once. *)
AcceptedUnlessStuck ==
  \A c \in Conn : fd[c] = "accepted" ~> fd[c] # "accepted" \/ exited \/ \A w \in Worker : Stuck(w)

(* ... and the shutdown: poison wakes a worker or it is one of those that were
   passed over, for whom pthread_join then waits for ever. *)
ShutdownUnlessStuck ==
  mpc = "poison" ~> exited \/ \E w \in Worker : ~Dead(w) /\ Stuck(w)
=============================================================================
